---- MODULE Spec2Model ----
(***************************************************************************)
(* State-machine model of the ScratchWorld control plane.                  *)
(*                                                                         *)
(* Part 1: the session pool manager (scratch-bench-api/api/                *)
(* session_manager.py) and the service endpoints that drive it             *)
(* (scratch-bench-api/api/main.py).                                        *)
(*                                                                         *)
(* The pool is the insertion-ordered dict SessionManager._sessions, kept   *)
(* here as a sequence of Session records.  time.time() is the variable     *)
(* now: a clock that never runs backwards and that may return the same     *)
(* value to two successive readers.  Every operation that runs with the    *)
(* pool lock held from start to end is one action; delete_session (which   *)
(* releases the lock after the pop) and close_all (snapshot, then          *)
(* concurrent deletes) are split at the points where they let go of it.    *)
(*                                                                         *)
(* Part 2: the composite command dispatcher (scratch-bench-api/api/        *)
(* scratch_api.py) with its per-session index cache, the primitive         *)
(* interaction handlers (interaction_handlers.py) and the envelope         *)
(* builders (action_response.py).  ScratchAPI.execute suspends once, in    *)
(* page.evaluate; it is split there into Dispatch and Complete, so that    *)
(* commands on one session and on different sessions interleave.           *)
(*                                                                         *)
(* Part 3: the caller side (scratchbench/core/agent_client.py): the        *)
(* element list kept from the last observation, index resolution and the   *)
(* envelope unifier.  The client blocks in requests.post, so one client    *)
(* call is one action.                                                     *)
(***************************************************************************)
EXTENDS Integers, Sequences, FiniteSets, TLC

\* ---------------------------------------------------------------- bounds
MaxTime == 2        \* the clock runs over 0..MaxTime
MaxCreate == 3      \* engine contexts ever opened by create_session
MaxCap == 2         \* largest MAX_SESSIONS tried
MaxTTL == 1         \* largest SESSION_TTL_SECONDS tried
MaxWait == 1        \* longest time a handler waits on the engine between two clock readings

\* MAX_SESSIONS and SESSION_TTL_SECONDS come from the environment
\* (_get_int_env): any integer, zero and negative included.
CapChoices == (0 - 1) .. MaxCap
TTLChoices == 0 .. MaxTTL

VARIABLES
    _sessions,      \* SessionManager._sessions, in dict (insertion) order
    max_sessions,   \* SessionManager.max_sessions
    session_ttl,    \* SessionManager.session_ttl
    now,            \* what time.time() returns
    contexts,       \* engine: the BrowserContexts that are open
    nextCtx,        \* engine: the next BrowserContext/Page to be handed out
    nextSid,        \* the next uuid4 (never repeats)
    closing,        \* delete_session calls past the pop, before context.close()
    ca,             \* the close_all call in progress
    useOrder,       \* bookkeeping, not program state: the ids in the pool, the
                    \* least recently created-or-fetched first
    res,            \* the last operation: what it was given and what it answered
    _lock,          \* SessionManager._lock: the coroutine holding it, 0 when free
    tasks,          \* the coroutines of the event loop, each where it is suspended
    popped,         \* bookkeeping, not program state: the sessions taken out of
                    \* the pool, each with the coroutine that took it
    _cleanup_task,  \* SessionManager._cleanup_task: the loop's task, 0 for None
    cached_idx_to_block,          \* ScratchAPI.cached_idx_to_block, per session
    cached_value_to_id_mappings,  \* ScratchAPI.cached_value_to_id_mappings, per session
    inflight,       \* execute calls suspended in page.evaluate
    snapshot,       \* bookkeeping, not program state: per session, the index
                    \* map of the last successful describe, none once a
                    \* structure mutation has succeeded after it
    resp,           \* the last step of the command layer and its envelope
    _current_elements,  \* ScratchAgentEnvironment._current_elements
    observed,       \* bookkeeping: the element list of the latest observation
    call            \* the last client call: request posted, reply, envelope

poolVars == << _sessions, max_sessions, session_ttl, now, contexts, nextCtx,
               nextSid, closing, ca, useOrder, res, _lock, tasks, popped,
               _cleanup_task >>

apiVars == << cached_idx_to_block, cached_value_to_id_mappings, inflight,
              snapshot, resp >>

clientVars == << _current_elements, observed, call >>

vars == << poolVars, apiVars, clientVars >>


\* ------------------------------------------------------- Python values

\* A JSON/Python value: None, a bool, an int, a str, or a dict whose values
\* are strings (t is the type, the other fields hold the content).  A dict is
\* its set of <<key, value>> pairs.
None == [ t |-> "none", n |-> 0, s |-> "", d |-> {} ]
PyBool(b) == [ t |-> "bool", n |-> IF b THEN 1 ELSE 0, s |-> "", d |-> {} ]
PyInt(i) == [ t |-> "int", n |-> i, s |-> "", d |-> {} ]
PyStr(x) == [ t |-> "str", n |-> 0, s |-> x, d |-> {} ]
PyDict(pairs) == [ t |-> "dict", n |-> 0, s |-> "", d |-> pairs ]

\* str(i) for the integers the model uses
Decimal == << "1", "2", "3", "4", "5", "6", "7" >>

\* a float, in tenths, and a list of strings, as <<position, item>> pairs
PyFloat(tenths) == [ t |-> "float", n |-> tenths, s |-> "", d |-> {} ]
PyList(items) ==
    [ t |-> "list", n |-> 0, s |-> "",
      d |-> { << Decimal[i], items[i] >> : i \in 1 .. Len(items) } ]
ItemsOf(v) ==
    [ i \in 1 .. Cardinality(v.d) |-> (CHOOSE p \in v.d : p[1] = Decimal[i])[2] ]

\* bool(v): the truth value Python gives v in `if v` and `v or w`
Truthy(v) ==
    CASE v.t = "none" -> FALSE
      [] v.t = "bool" -> v.n = 1
      [] v.t = "int" -> v.n # 0
      [] v.t = "float" -> v.n # 0
      [] v.t = "str" -> v.s # ""
      [] v.t \in { "dict", "list" } -> v.d # {}

\* isinstance(v, int): bool is a subclass of int
IsInt(v) == v.t \in { "int", "bool" }

\* isinstance(v, dict)
IsDict(v) == v.t = "dict"

\* str(v), with str(True) and str(False)
StrOf(v) ==
    CASE v.t = "bool" -> IF v.n = 1 THEN "True" ELSE "False"
      [] v.t = "int" /\ v.n \in 1 .. Len(Decimal) -> Decimal[v.n]
      [] v.t = "int" /\ v.n = 0 -> "0"
      [] v.t = "str" -> v.s
      [] OTHER -> "None"

\* key in d, d[key] and the keys of d, for a dict value d
HasKey(v, key) == \E p \in v.d : p[1] = key
Item(v, key) == (CHOOSE p \in v.d : p[1] = key)[2]
KeysOf(v) == { p[1] : p \in v.d }

\* A Python dict with string keys and arbitrary values (args, payloads,
\* data) is a function on its keys; m.get(key) answers None for a missing key.
EmptyDict == << >>
Get(m, key) == IF key \in DOMAIN m THEN m[key] ELSE None
Restrict(m, keys) == [ k \in (DOMAIN m) \cap keys |-> m[k] ]

\* the sessions whose command layer is followed
SessionNames == { "A", "B" }

\* faulty variant of ApiStart: the index cache starts as an empty dict
ApiStartEmptyDict ==
    /\ cached_idx_to_block = [ s \in SessionNames |-> [ t |-> "dict", n |-> 0, s |-> "", d |-> {} ] ]
    /\ cached_value_to_id_mappings = [ s \in SessionNames |-> [ t |-> "none", n |-> 0, s |-> "", d |-> {} ] ]
    /\ inflight = {}
    /\ snapshot = [ s \in SessionNames |-> [ t |-> "none", n |-> 0, s |-> "", d |-> {} ] ]
    /\ resp = [ op |-> "init", sid |-> "", api |-> "", code |-> "", sent |-> << >> ]

\* ScratchAPI.__init__: both caches start as None
ApiStart ==
    /\ cached_idx_to_block = [ s \in SessionNames |-> None ]
    /\ cached_value_to_id_mappings = [ s \in SessionNames |-> None ]
    /\ inflight = {}
    /\ snapshot = [ s \in SessionNames |-> None ]
    /\ resp = [ op |-> "init", sid |-> "", api |-> "", code |-> "", sent |-> << >> ]

\* ScratchAgentEnvironment.__init__: no elements before the first observation
NoCall == [ op |-> "init", api |-> "", args |-> EmptyDict ]

ClientStart ==
    /\ _current_elements = << >>
    /\ observed = << >>
    /\ call = NoCall

\* ------------------------------------------------------------- helpers
Min(a, b) == IF a <= b THEN a ELSE b

Range(S) == { S[i] : i \in 1 .. Len(S) }

Ids(S) == { S[i].session_id : i \in 1 .. Len(S) }

\* self._sessions.get(session_id): the record, or the empty set for None
Lookup(S, sid) == { s \in Range(S) : s.session_id = sid }

\* faulty variant of Pop: the key stays in the dict
PopNothing(S, sid) == S

\* self._sessions.pop(session_id, None): the dict without that key
Pop(S, sid) == SelectSeq(S, LAMBDA s : s.session_id # sid)

\* ScratchAPI(page, session_id=sid): a handler bound to one page and one id
ScratchAPI(page, sid) == [ page |-> page, session_id |-> sid ]

\* faulty variant of Session: every session is given the first context and its
\* page (one shared automation handle)
SessionOnSharedPage(sid, ctx, page, t, rec) ==
    [ session_id |-> sid, context |-> 1, page |-> 1,
      created_at |-> t, last_used_at |-> t, is_recording |-> rec,
      scratch_api |-> ScratchAPI(1, sid) ]

\* Session(...): created_at and last_used_at both default to time.time()
Session(sid, ctx, page, t, rec) ==
    [ session_id |-> sid, context |-> ctx, page |-> page,
      created_at |-> t, last_used_at |-> t, is_recording |-> rec,
      scratch_api |-> ScratchAPI(page, sid) ]

\* ------------------------------------------------- _cleanup_expired_locked
\* faulty variant of IsExpired: a session expires by age, not by idle time
IsExpiredByAge(s, t) == (t - s.created_at) > session_ttl

\* faulty variant of IsExpired: a session idle for exactly TTL is expired
IsExpiredAtTTL(s, t) == (t - s.last_used_at) >= session_ttl

\* (now - s.last_used_at) > self.session_ttl
IsExpired(s, t) == (t - s.last_used_at) > session_ttl

ExpiredIn(S, t) ==
    IF session_ttl <= 0 THEN {} ELSE { s \in Range(S) : IsExpired(s, t) }

\* faulty variant of _cleanup_expired_locked: nothing is removed
CleanupSkipped(S, t) == S

_cleanup_expired_locked(S, t) ==
    IF session_ttl <= 0 THEN S
    ELSE SelectSeq(S, LAMBDA s : ~IsExpired(s, t))

\* ---------------------------------------------- _delete_oldest_sessions_locked
\* faulty variant of SortKey: oldest-created first
SortKeyCreatedAt(s) == s.created_at

\* key=lambda x: x[1].last_used_at
SortKey(s) == s.last_used_at

\* one step of sorted(): x goes after every element whose key is <= its own
\* (sorted() is stable, so equal keys keep dict order)
InsertSorted(x, T) ==
    LET k == Cardinality({ i \in 1 .. Len(T) : SortKey(T[i]) <= SortKey(x) })
    IN  SubSeq(T, 1, k) \o << x >> \o SubSeq(T, k + 1, Len(T))

RECURSIVE sorted_sessions(_)
sorted_sessions(S) ==
    IF S = << >> THEN << >>
    ELSE InsertSorted(S[Len(S)], sorted_sessions(SubSeq(S, 1, Len(S) - 1)))

\* the sessions range(min(num_to_delete, len(sorted_sessions))) pops
Victims(S, num_to_delete) ==
    IF num_to_delete <= 0 \/ S = << >> THEN {}
    ELSE LET srt == sorted_sessions(S)
         IN  { srt[i] : i \in 1 .. Min(num_to_delete, Len(srt)) }

_delete_oldest_sessions_locked(S, num_to_delete) ==
    LET gone == { v.session_id : v \in Victims(S, num_to_delete) }
    IN  SelectSeq(S, LAMBDA s : s.session_id \notin gone)

\* ------------------------------------------------------------ create_session
\* faulty variant of AtOrOverLimit: room is made only when over the limit
OverLimitOnly(n) == n > max_sessions

\* if len(self._sessions) >= self.max_sessions
AtOrOverLimit(n) == n >= max_sessions

\* faulty variant of NumToDelete: room is made for two
NumToDeleteTwo(n) == n - max_sessions + 2

\* num_to_delete = len(self._sessions) - self.max_sessions + 1
NumToDelete(n) == n - max_sessions + 1

EvictedBy(S) ==
    IF AtOrOverLimit(Len(S)) THEN Victims(S, NumToDelete(Len(S))) ELSE {}

MakeRoom(S) ==
    IF AtOrOverLimit(Len(S))
    THEN _delete_oldest_sessions_locked(S, NumToDelete(Len(S)))
    ELSE S

\* The last answer: op is the operation, status its outcome, ret what it
\* returned (a session, a listing, a closure result), swept and evicted the ids
\* it removed on the way; sid is the id a delete was given (a get's id is in
\* the session it returns).  Quiet(op) is the answer of an operation that
\* returns nothing.
Quiet(op) == [ op |-> op, sid |-> 0, status |-> "ok",
               swept |-> {}, evicted |-> {}, ret |-> << >> ]

IdleCA == [ pc |-> "idle", ids |-> {}, todo |-> {}, closed |-> 0,
            errors |-> {}, raced |-> FALSE ]

\* no coroutine is followed one await at a time: the lock is free
LockIdle ==
    /\ _lock = 0
    /\ tasks = << >>
    /\ popped = {}
    /\ _cleanup_task = 0

Init ==
    /\ LockIdle
    /\ _sessions = << >>
    /\ max_sessions \in CapChoices
    /\ session_ttl \in TTLChoices
    /\ now = 0
    /\ contexts = {}
    /\ nextCtx = 1
    /\ nextSid = 1
    /\ closing = {}
    /\ ca = IdleCA
    /\ useOrder = << >>
    /\ res = Quiet("init")
    /\ ApiStart
    /\ ClientStart

\* the session ids a caller may name: every id handed out so far, and 0 for
\* any id no session ever had
SidArgs(next) == 0 .. (next - 1)

\* what browser.new_context() / context.new_page() may do
EngineOutcomes == { "ok", "context_error", "page_error" }

\* the clock's advance between a handler's first and second time.time(),
\* while it awaits the engine
Waits == 0 .. MaxWait

ContextsOf(R) == { s.context : s \in R }

IdsOf(R) == { s.session_id : s \in R }

\* faulty variant of Touch: the last-used time is not updated
TouchNothing(S, sid, t) == S

\* sess.last_used_at = time.time()
Touch(S, sid, t) ==
    [ i \in 1 .. Len(S) |->
        IF S[i].session_id = sid THEN [ S[i] EXCEPT !.last_used_at = t ] ELSE S[i] ]

\* the per-session summary list_sessions returns
Summary(s) ==
    [ session_id |-> s.session_id, created_at |-> s.created_at,
      last_used_at |-> s.last_used_at, is_recording |-> s.is_recording ]

\* useOrder after the pool became S and sid (0: none) was created or fetched
Used(S, sid) ==
    LET kept == SelectSeq(useOrder, LAMBDA i : i \in Ids(S) /\ i # sid)
    IN  IF sid \in Ids(S) THEN Append(kept, sid) ELSE kept

\* the record= values POST /sessions is given.  Recording changes what
\* delete_session does with the video file outside the lock and nothing in the
\* pool, so sessions are created without it.
RecordChoices == { FALSE }

\* time passes
Tick ==
    /\ now < MaxTime
    /\ now' = now + 1
    /\ UNCHANGED << _sessions, max_sessions, session_ttl, contexts, nextCtx,
                    nextSid, closing, ca, useOrder, res >>

\* POST /sessions -> SessionManager.create_session, the lock held throughout:
\* sweep, make room, open a context and a page, add the session
CreateSession(record, outcome, d) ==
    LET swept == ExpiredIn(_sessions, now)
        S1 == _cleanup_expired_locked(_sessions, now)
        evicted == EvictedBy(S1)
        S2 == MakeRoom(S1)
        t1 == now + d
        sess == Session(nextSid, nextCtx, nextCtx, t1, record)
        left == contexts \ ContextsOf(swept \cup evicted)
    IN  /\ nextCtx <= MaxCreate
        /\ t1 <= MaxTime
        /\ now' = t1
        /\ IF outcome = "ok"
           THEN /\ _sessions' = Append(S2, sess)
                /\ contexts' = left \cup { nextCtx }
                /\ nextCtx' = nextCtx + 1
                /\ nextSid' = nextSid + 1
                /\ res' = [ op |-> "create", sid |-> nextSid, status |-> "ok",
                            swept |-> IdsOf(swept), evicted |-> IdsOf(evicted),
                            ret |-> << sess >> ]
           ELSE /\ _sessions' = S2
                /\ contexts' = IF outcome = "page_error"
                               THEN left \cup { nextCtx } ELSE left
                /\ nextCtx' = IF outcome = "page_error" THEN nextCtx + 1 ELSE nextCtx
                /\ nextSid' = nextSid
                /\ res' = [ op |-> "create", sid |-> 0, status |-> "error",
                            swept |-> IdsOf(swept), evicted |-> IdsOf(evicted),
                            ret |-> << >> ]
        /\ ca' = IF ca.pc = "gather" /\ outcome = "ok"
                 THEN [ ca EXCEPT !.raced = TRUE ] ELSE ca
        /\ useOrder' = Used(_sessions', IF outcome = "ok" THEN nextSid ELSE 0)
        /\ UNCHANGED << max_sessions, session_ttl, closing >>

\* SessionManager.get_session: sweep, look up, touch
GetBody(op, sid, d) ==
    LET swept == ExpiredIn(_sessions, now)
        S1 == _cleanup_expired_locked(_sessions, now)
        found == Lookup(S1, sid)
        t1 == now + d
    IN  /\ swept = {} => d = 0
        /\ t1 <= MaxTime
        /\ now' = t1
        /\ contexts' = contexts \ ContextsOf(swept)
        /\ IF found = {}
           THEN /\ _sessions' = S1
                /\ res' = [ op |-> op, sid |-> 0, status |-> "NOT_FOUND",
                            swept |-> IdsOf(swept), evicted |-> {},
                            ret |-> << >> ]
           ELSE /\ _sessions' = Touch(S1, sid, t1)
                /\ res' = [ op |-> op, sid |-> 0, status |-> "ok",
                            swept |-> IdsOf(swept), evicted |-> {},
                            ret |-> << CHOOSE s \in Range(Touch(S1, sid, t1)) :
                                          s.session_id = sid >> ]
        /\ useOrder' = Used(_sessions', sid)
        /\ UNCHANGED << max_sessions, session_ttl, nextCtx, nextSid, closing, ca >>

\* GET /sessions/{session_id}
GetSession(sid, d) == GetBody("get", sid, d)

\* every other /sessions/{session_id}/... endpoint: get_session, then the
\* session-bound handler runs the command
SessionCommand(sid, d) == GetBody("command", sid, d)

\* GET /sessions -> SessionManager.list_sessions
ListSessions ==
    LET swept == ExpiredIn(_sessions, now)
        S1 == _cleanup_expired_locked(_sessions, now)
    IN  /\ _sessions' = S1
        /\ contexts' = contexts \ ContextsOf(swept)
        /\ res' = [ op |-> "list", sid |-> 0, status |-> "ok",
                    swept |-> IdsOf(swept), evicted |-> {},
                    ret |-> [ i \in 1 .. Len(S1) |-> Summary(S1[i]) ] ]
        /\ useOrder' = Used(_sessions', 0)
        /\ UNCHANGED << max_sessions, session_ttl, now, nextCtx, nextSid,
                        closing, ca >>

\* one round of the background loop of start_cleanup
Sweep ==
    LET swept == ExpiredIn(_sessions, now)
    IN  /\ _sessions' = _cleanup_expired_locked(_sessions, now)
        /\ contexts' = contexts \ ContextsOf(swept)
        /\ res' = [ Quiet("sweep") EXCEPT !.swept = IdsOf(swept) ]
        /\ useOrder' = Used(_sessions', 0)
        /\ UNCHANGED << max_sessions, session_ttl, now, nextCtx, nextSid,
                        closing, ca >>

\* what delete_session still holds of a session after the pop
Popped(s, by) ==
    [ session_id |-> s.session_id, context |-> s.context,
      is_recording |-> s.is_recording, by |-> by ]

\* delete_session up to the end of "async with self._lock": the pop
PopForDelete(sid, by) ==
    LET found == Lookup(_sessions, sid)
    IN  IF found = {}
        THEN UNCHANGED << _sessions, closing, useOrder >>
        ELSE /\ _sessions' = Pop(_sessions, sid)
             /\ closing' = closing \cup { Popped(CHOOSE s \in found : TRUE, by) }
             /\ useOrder' = Used(_sessions', 0)

\* DELETE /sessions/{session_id}: the pop, or KeyError -> 404
DeleteSession(sid) ==
    /\ PopForDelete(sid, "delete")
    /\ res' = [ Quiet("delete") EXCEPT
                  !.sid = sid,
                  !.status = IF Lookup(_sessions, sid) = {}
                             THEN "NOT_FOUND" ELSE "closing" ]
    /\ UNCHANGED << max_sessions, session_ttl, now, contexts, nextCtx, nextSid, ca >>

\* rec_info: set only for a recording session whose video file was found
ClosureResult(c, video) ==
    [ status |-> "closed",
      recording |-> IF c.is_recording /\ video THEN "completed" ELSE "None" ]

\* the rest of delete_session, outside the lock: finalize the recording,
\* close the context, return the closure result
DeleteFinish(c, video) ==
    /\ c \in closing
    /\ ~c.is_recording => ~video
    /\ closing' = closing \ { c }
    /\ contexts' = contexts \ { c.context }
    /\ ca' = IF c.by = "close_all" THEN [ ca EXCEPT !.closed = @ + 1 ] ELSE ca
    /\ res' = IF c.by = "close_all" THEN Quiet("none")
              ELSE [ Quiet("delete_done") EXCEPT
                       !.sid = c.session_id, !.status = "closed",
                       !.ret = << ClosureResult(c, video) >> ]
    /\ UNCHANGED << _sessions, max_sessions, session_ttl, now, nextCtx, nextSid,
                    useOrder >>

\* close_all: ids = list(self._sessions.keys()) under the lock
CloseAllStart ==
    /\ ca.pc = "idle"
    /\ IF _sessions = << >>
       THEN /\ ca' = ca
            /\ res' = [ Quiet("close_all") EXCEPT
                          !.ret = << [ closed |-> 0, errors |-> {} ] >> ]
       ELSE /\ ca' = [ pc |-> "gather", ids |-> Ids(_sessions),
                       todo |-> Ids(_sessions), closed |-> 0, errors |-> {},
                       raced |-> FALSE ]
            /\ res' = Quiet("none")
    /\ UNCHANGED << _sessions, max_sessions, session_ttl, now, contexts,
                    nextCtx, nextSid, closing, useOrder >>

\* close_all: one _delete_session_safe task reaches the pop
CloseAllDelete(sid) ==
    /\ ca.pc = "gather"
    /\ sid \in ca.todo
    /\ PopForDelete(sid, "close_all")
    /\ ca' = [ ca EXCEPT !.todo = @ \ { sid },
                         !.errors = IF Lookup(_sessions, sid) = {}
                                    THEN @ \cup { sid } ELSE @ ]
    /\ res' = Quiet("none")
    /\ UNCHANGED << max_sessions, session_ttl, now, contexts, nextCtx, nextSid >>

\* faulty variant of GatherDone: the first finished task ends the wait
GatherFirstDone == ca.todo # ca.ids

\* results = await asyncio.gather(*tasks): every task has returned
GatherDone ==
    /\ ca.todo = {}
    /\ \A c \in closing : c.by # "close_all"

\* close_all: gather has every result; count them and return
CloseAllReturn ==
    /\ ca.pc = "gather"
    /\ GatherDone
    /\ ca' = IdleCA
    /\ res' = [ Quiet("close_all") EXCEPT
                  !.ret = << [ closed |-> ca.closed, errors |-> ca.errors ] >> ]
    /\ UNCHANGED << _sessions, max_sessions, session_ttl, now, contexts,
                    nextCtx, nextSid, closing, useOrder >>

\* the command layer and the caller side stand still while the pool moves;
\* a section run under the lock is one step here, so the lock is not followed
PoolOnly == UNCHANGED << apiVars, clientVars, _lock, tasks, popped, _cleanup_task >>

Next ==
    \/ Tick /\ PoolOnly
    \/ \E record \in RecordChoices, outcome \in EngineOutcomes, d \in Waits :
           CreateSession(record, outcome, d) /\ PoolOnly
    \/ \E sid \in SidArgs(nextSid), d \in Waits : GetSession(sid, d) /\ PoolOnly
    \/ \E sid \in SidArgs(nextSid), d \in Waits : SessionCommand(sid, d) /\ PoolOnly
    \/ ListSessions /\ PoolOnly
    \/ Sweep /\ PoolOnly
    \/ \E sid \in SidArgs(nextSid) : DeleteSession(sid) /\ PoolOnly
    \/ \E c \in closing, video \in BOOLEAN : DeleteFinish(c, video) /\ PoolOnly
    \/ CloseAllStart /\ PoolOnly
    \/ \E sid \in SidArgs(nextSid) : CloseAllDelete(sid) /\ PoolOnly
    \/ CloseAllReturn /\ PoolOnly

Spec == Init /\ [][Next]_vars


\* ------------------------------------------------- what a step did, observed
\* position of the session with id sid in the dict order of pool S
Pos(S, sid) == CHOOSE i \in 1 .. Len(S) : S[i].session_id = sid

\* idle time of session s, measured by a call that reads the clock at t
Idle(s, t) == t - s.last_used_at

\* the sessions of the pool that this step takes out of it
Removed == { s \in Range(_sessions) : s.session_id \notin Ids(_sessions') }

\* the sessions of the pool that this step leaves in it
Stayed == { s \in Range(_sessions) : s.session_id \in Ids(_sessions') }

\* of the removed ones, those the TTL rule does not account for
RemovedUnexpired ==
    { s \in Removed : session_ttl <= 0 \/ Idle(s, now) <= session_ttl }

\* the step is a create_session call, successful or failed
IsCreateStep ==
    /\ res'.op = "create"
    /\ \E record \in RecordChoices, outcome \in EngineOutcomes, d \in Waits :
          CreateSession(record, outcome, d)

\* ----------------------------------------------------------------- C1
\* C1: with a configured capacity N >= 1 the pool never holds more than N
\* sessions, whatever create, get, list, delete, close_all and sweep steps
\* were taken and however they interleaved.
C1_CapacityNeverExceeded ==
    max_sessions >= 1 => Len(_sessions) <= max_sessions

\* a create that had to evict has just filled the pool to its capacity of 2
C1_Witness ==
    /\ max_sessions = MaxCap
    /\ res.op = "create"
    /\ res.status = "ok"
    /\ res.evicted # {}
    /\ Len(_sessions) = max_sessions

\* ----------------------------------------------------------------- C2
\* C2 as stated: whenever create evicts, every evicted session was less
\* recently used (created or fetched earlier, in the order of the calls) than
\* every session that stays; so a get on S1 after S2 was created makes S2 the
\* victim.
C2_EvictsLeastRecentlyUsedCall ==
    [][ (IsCreateStep /\ max_sessions >= 1) =>
          \A v \in RemovedUnexpired, s \in Stayed :
              \E i, j \in 1 .. Len(useOrder) :
                  /\ useOrder[i] = v.session_id
                  /\ useOrder[j] = s.session_id
                  /\ i < j ]_vars

\* C2 amended: whenever create evicts, every evicted session has a last-used
\* time no later than that of every session that stays, and of two sessions
\* with the same last-used time the one earlier in the pool goes first; a full
\* pool always loses at least one session.  With capacity 2 and pool S1, S2
\* the victim is S2 exactly when S1's last-used time is strictly later.
C2_EvictsOldestLastUsed ==
    [][ (IsCreateStep /\ max_sessions >= 1) =>
          /\ \A v \in RemovedUnexpired, s \in Stayed :
                \/ v.last_used_at < s.last_used_at
                \/ /\ v.last_used_at = s.last_used_at
                   /\ Pos(_sessions, v.session_id) < Pos(_sessions, s.session_id)
          /\ (Cardinality(Stayed) + Cardinality(RemovedUnexpired) >= max_sessions)
                => RemovedUnexpired # {}
          /\ (max_sessions = 2 /\ Len(_sessions) = 2 /\ Removed = RemovedUnexpired) =>
                IF _sessions[1].last_used_at > _sessions[2].last_used_at
                THEN Removed = { _sessions[2] }
                ELSE Removed = { _sessions[1] } ]_vars

\* create has just evicted a session although an older-created one stays
C2_Witness ==
    /\ res.op = "create"
    /\ res.status = "ok"
    /\ \E v \in res.evicted, s \in Range(_sessions) : s.session_id < v

\* ----------------------------------------------------------------- C3
\* C3: when the capacity is configured as zero or negative, a create that the
\* engine does not fail is rejected with RESOURCE_EXHAUSTED and the pool stays
\* empty.
C3_NoCapacityRejects ==
    (max_sessions <= 0 /\ res.op = "create" /\ res.status # "error") =>
        (res.status = "RESOURCE_EXHAUSTED" /\ _sessions = << >>)

\* ----------------------------------------------------------------- C4
\* C4: get(id) for an id not in the pool answers NOT_FOUND, changes no
\* session's last-used time and removes no unexpired session; get(id) for a
\* session in the pool that has not expired returns that session, with its
\* last-used time set to the clock's value, and changes nothing else of it.
C4_Get ==
    [][ \A sid \in SidArgs(nextSid), d \in Waits :
          (res'.op = "get" /\ GetSession(sid, d)) =>
            LET hit == { s \in Range(_sessions) :
                           /\ s.session_id = sid
                           /\ (session_ttl <= 0 \/ Idle(s, now) <= session_ttl) }
            IN  /\ sid \notin Ids(_sessions) =>
                     /\ res'.status = "NOT_FOUND"
                     /\ res'.ret = << >>
                     /\ Range(_sessions') \subseteq Range(_sessions)
                     /\ RemovedUnexpired = {}
                /\ \A s \in hit :
                     /\ res'.status = "ok"
                     /\ res'.ret = << [ s EXCEPT !.last_used_at = now' ] >>
                     /\ res'.ret[1] \in Range(_sessions')
                     /\ \A o \in Range(_sessions) :
                          (o # s /\ o.session_id \in Ids(_sessions')) =>
                              o \in Range(_sessions') ]_vars

\* a get has just answered NOT_FOUND while other sessions are in the pool
C4_Witness ==
    /\ res.op = "get"
    /\ res.status = "NOT_FOUND"
    /\ _sessions # << >>

\* ----------------------------------------------------------------- C5
\* the step is a get_session call for sid, from GET /sessions/{id} or from a
\* session-scoped command
IsFetchStep(sid) ==
    \/ res'.op = "get" /\ \E d \in Waits : GetSession(sid, d)
    \/ res'.op = "command" /\ \E d \in Waits : SessionCommand(sid, d)

\* the step runs the TTL sweep and removes sessions for no other reason
IsSweepOnlyStep ==
    \/ res'.op = "sweep" /\ Sweep
    \/ res'.op = "list" /\ ListSessions
    \/ \E sid \in SidArgs(nextSid) : IsFetchStep(sid)

\* activity defers expiry: a get or command on a session that has not expired
\* restarts its idle clock, and a sweep removes no session that was used
\* within the last TTL seconds
ActivityDefersExpiry(sweepOnly, create) ==
    /\ \A sid \in SidArgs(nextSid) :
          (sid \in Ids(_sessions') /\ IsFetchStep(sid)) =>
              \A s \in Range(_sessions') :
                  s.session_id = sid => s.last_used_at = now'
    /\ sweepOnly =>
          \A s \in Removed : session_ttl > 0 /\ Idle(s, now) > session_ttl
    /\ create =>
          /\ IdsOf(Removed) = res'.swept \cup res'.evicted
          /\ \A s \in Removed :
                s.session_id \in res'.swept =>
                    session_ttl > 0 /\ Idle(s, now) > session_ttl

\* a sweep leaves no session that was idle for more than TTL seconds
IdleSessionsSwept(sweepOnly, create) ==
    (sweepOnly \/ create) =>
        \A s \in Range(_sessions) :
            Idle(s, now) > session_ttl => s.session_id \notin Ids(_sessions')

\* C5 as stated: a session used at least once in every window of TTL seconds
\* is never removed by a TTL sweep, and a session not used for more than TTL
\* seconds is removed by the next sweep, for every configured TTL (read here
\* for the pools with a capacity of at least 1).
C5_ActivityDefersExpiry ==
    [][ LET sweepOnly == IsSweepOnlyStep
            create == IsCreateStep
        IN  max_sessions >= 1 =>
              /\ ActivityDefersExpiry(sweepOnly, create)
              /\ IdleSessionsSwept(sweepOnly, create) ]_vars

\* C5 amended: the same, for a configured TTL > 0 (with TTL <= 0 the sweep is
\* switched off and no session is ever removed for being idle).
C5_ActivityDefersExpiryPositiveTTL ==
    [][ LET sweepOnly == IsSweepOnlyStep
            create == IsCreateStep
        IN  /\ ActivityDefersExpiry(sweepOnly, create)
            /\ session_ttl > 0 => IdleSessionsSwept(sweepOnly, create) ]_vars

\* a sweep has removed an idle session and kept one that was created more
\* than TTL ago but used since
C5_Witness ==
    /\ session_ttl > 0
    /\ res.op = "sweep"
    /\ res.swept # {}
    /\ \E s \in Range(_sessions) :
          /\ now - s.created_at > session_ttl
          /\ now - s.last_used_at <= session_ttl

\* ----------------------------------------------------------------- C6
\* C6: with TTL > 0 a sweep removes exactly the expired sessions: afterwards
\* the pool holds no session that was idle for more than TTL when the sweep
\* began, and holds every other session unchanged, in the same order, its
\* context still open.
C6_SweepRemovesExactlyExpired ==
    [][ (session_ttl > 0 /\ res'.op = "sweep" /\ Sweep) =>
          /\ \A s \in Range(_sessions) :
                IF Idle(s, now) > session_ttl
                THEN s.session_id \notin Ids(_sessions') /\ s.context \notin contexts'
                ELSE s \in Range(_sessions') /\ s.context \in contexts'
          /\ Range(_sessions') \subseteq Range(_sessions)
          /\ \A i, j \in 1 .. Len(_sessions') :
                i < j => Pos(_sessions, _sessions'[i].session_id)
                           < Pos(_sessions, _sessions'[j].session_id) ]_vars

\* a sweep has removed one session and kept another whose idle time is
\* exactly TTL
C6_Witness ==
    /\ session_ttl > 0
    /\ res.op = "sweep"
    /\ res.swept # {}
    /\ \E s \in Range(_sessions) : Idle(s, now) = session_ttl

\* ----------------------------------------------------------------- C7
\* C7: with TTL > 0, list never includes and get never returns a session that
\* was idle for more than TTL when the call was made, whether or not a
\* background sweep ran since it expired.
C7_NoExpiredSessionExposed ==
    [][ session_ttl > 0 =>
          /\ (res'.op = "list" /\ ListSessions) =>
                /\ \A i \in 1 .. Len(res'.ret) :
                      Idle(res'.ret[i], now) <= session_ttl
                /\ \A s \in Range(_sessions) :
                      Idle(s, now) <= session_ttl =>
                          \E i \in 1 .. Len(res'.ret) :
                              res'.ret[i].session_id = s.session_id
          /\ \A sid \in SidArgs(nextSid), d \in Waits :
                (res'.op = "get" /\ GetSession(sid, d)) =>
                    \A s \in Range(_sessions) :
                        (s.session_id = sid /\ Idle(s, now) > session_ttl) =>
                            res'.status = "NOT_FOUND" /\ res'.ret = << >> ]_vars

\* a list call has itself removed an expired session that no sweep had taken,
\* and lists another
C7_Witness ==
    /\ session_ttl > 0
    /\ res.op = "list"
    /\ res.swept # {}
    /\ res.ret # << >>

\* ----------------------------------------------------------------- C8
\* C8: delete(id) on a session in the pool removes it and no other and ends
\* with a closure result; delete(id) on an id not in the pool answers NOT_FOUND
\* and changes nothing; an id that left the pool never comes back, so a second
\* delete of the same id answers NOT_FOUND.
C8_Delete ==
    [][ /\ \A sid \in SidArgs(nextSid) :
              (res'.op = "delete" /\ DeleteSession(sid)) =>
                  IF sid \in Ids(_sessions)
                  THEN /\ res'.status = "closing"
                       /\ Ids(_sessions') = Ids(_sessions) \ { sid }
                       /\ Range(_sessions') \subseteq Range(_sessions)
                       /\ \E c \in closing' \ closing :
                             c.session_id = sid /\ c.by = "delete"
                  ELSE /\ res'.status = "NOT_FOUND"
                       /\ UNCHANGED << _sessions, contexts, closing, ca >>
        /\ \A c \in closing, video \in BOOLEAN :
              (c.by = "delete" /\ DeleteFinish(c, video)) =>
                  /\ res'.op = "delete_done"
                  /\ res'.sid = c.session_id
                  /\ res'.ret[1].status = "closed"
                  /\ c.context \notin contexts'
        /\ \A sid \in Ids(_sessions') : sid \in Ids(_sessions) \/ sid >= nextSid
        /\ \A sid \in Ids(_sessions) : sid < nextSid
        /\ nextSid' >= nextSid ]_vars

\* a delete of an id that some session once had has just answered NOT_FOUND
C8_Witness ==
    /\ res.op = "delete"
    /\ res.status = "NOT_FOUND"
    /\ res.sid >= 1

\* ----------------------------------------------------------------- C9
\* C9: when close_all returns, no session of its starting snapshot is in the
\* pool, closed plus the number of errors equals the size of the snapshot
\* (one failed close does not stop the others), and the pool is empty unless
\* a create ran meanwhile; on an empty pool it returns closed 0 and no errors.
C9_CloseAll ==
    [][ /\ (res'.op = "close_all" /\ CloseAllReturn) =>
              /\ res'.ret[1].closed + Cardinality(res'.ret[1].errors)
                   = Cardinality(ca.ids)
              /\ res'.ret[1].errors \subseteq ca.ids
              /\ ca.ids \cap Ids(_sessions') = {}
              /\ ~ca.raced => _sessions' = << >>
        /\ (res'.op = "close_all" /\ CloseAllStart) =>
              /\ res'.ret[1] = [ closed |-> 0, errors |-> {} ]
              /\ _sessions' = << >> ]_vars

\* close_all has returned with one session closed and one error collected
C9_Witness ==
    /\ res.op = "close_all"
    /\ res.ret[1].closed >= 1
    /\ res.ret[1].errors # {}

\* ---------------------------------------------------------------- C10
\* the sessions that hold engine resources: those in the pool and those a
\* delete has popped and not yet closed
Holders ==
    { [ session_id |-> s.session_id, context |-> s.context ] :
        s \in Range(_sessions) } \cup
    { [ session_id |-> c.session_id, context |-> c.context ] : c \in closing }

\* C10: every session in the pool owns one open engine context and the page
\* opened in it, its command handler is bound to that page and to its own id,
\* and no context, page or handler belongs to two sessions.
C10_OneContextPerSession ==
    /\ \A s \in Range(_sessions) :
          /\ s.context \in contexts
          /\ s.page = s.context
          /\ s.scratch_api = ScratchAPI(s.page, s.session_id)
    /\ \A s1, s2 \in Range(_sessions) :
          s1.session_id # s2.session_id =>
              /\ s1.context # s2.context
              /\ s1.page # s2.page
              /\ s1.scratch_api.page # s2.scratch_api.page
    /\ \A h1, h2 \in Holders :
          h1.session_id # h2.session_id => h1.context # h2.context
    /\ \A i, j \in 1 .. Len(_sessions) :
          _sessions[i].session_id = _sessions[j].session_id => i = j

\* two sessions are in the pool while a third is being closed
C10_Witness ==
    /\ Len(_sessions) = 2
    /\ closing # {}

\* ================================================================ Part 2
\* ---------------------------------------------------- action_response.py

\* JSON null in the error field of an envelope; an error object is held as a
\* one-element sequence
null == << >>

\* The payload handed to the envelope builders is any Python value: a dict
\* (a function on its keys) or something else.
DictPayload(m) == [ isdict |-> TRUE, m |-> m, v |-> None ]
ValuePayload(v) == [ isdict |-> FALSE, m |-> EmptyDict, v |-> v ]

\* _normalize_action: {"api": str, "args": dict}; every caller passes a dict
\* with a dict of args
_normalize_action(action) == [ api |-> action.api, args |-> action.args ]

\* normalize_error: code and message as strings (details are not modelled)
normalize_error(error) == [ code |-> error.code, message |-> error.message ]

\* build_meta (timestamp and duration are not modelled)
build_meta(session_id) == [ session_id |-> session_id ]

\* pop "success", and "api" when it repeats the requested api, from a nested dict
Unwrapped(v, requested_api) ==
    PyDict({ p \in v.d : /\ p[1] # "success"
                          /\ ~(requested_api # "" /\ p[1] = "api"
                                                  /\ p[2] = requested_api) })

normalize_composite_data(data, requested_api) ==
    IF ~data.isdict
    THEN IF data.v.t = "none" THEN EmptyDict ELSE ("value" :> data.v)
    ELSE LET out1 == Restrict(data.m, (DOMAIN data.m) \ { "success" })
             out == IF /\ requested_api # ""
                       /\ "api" \in DOMAIN out1
                       /\ out1["api"] = PyStr(requested_api)
                    THEN Restrict(out1, (DOMAIN out1) \ { "api" })
                    ELSE out1
         IN  IF DOMAIN out = { "result" }
             THEN IF IsDict(out["result"])
                  THEN LET inner == Unwrapped(out["result"], requested_api)
                       IN  [ k \in KeysOf(inner) |-> PyStr(Item(inner, k)) ]
                  ELSE ("value" :> out["result"])
             ELSE IF "result" \in DOMAIN out /\ IsDict(out["result"])
                  THEN [ out EXCEPT !["result"] = Unwrapped(@, requested_api) ]
                  ELSE out

build_success_response(requested_action, executed_action, data, meta) ==
    [ success |-> TRUE,
      requested_action |-> _normalize_action(requested_action),
      executed_action |-> _normalize_action(executed_action),
      data |-> data,
      error |-> null,
      meta |-> meta ]

build_error_response(requested_action, executed_action, error, data, meta) ==
    [ success |-> FALSE,
      requested_action |-> _normalize_action(requested_action),
      executed_action |-> _normalize_action(executed_action),
      data |-> data,
      error |-> << normalize_error(error) >>,
      meta |-> meta ]

\* -------------------------------------------------------- scratch_api.py

\* A schema entry is None (a leaf) or a nested schema, whose entries are all
\* leaves in the catalog: leaf says which, keys are the nested keys.
Leaf == [ leaf |-> TRUE, keys |-> {} ]
Nested(keys) == [ leaf |-> FALSE, keys |-> keys ]

_COMPOSITE_CATALOG_ARG_SCHEMA ==
    [ select_sprite |-> [ name |-> Leaf ],
      select_stage |-> EmptyDict,
      add_variable |-> [ name |-> Leaf, scope |-> Leaf ],
      add_list |-> [ name |-> Leaf, scope |-> Leaf ],
      add_block |-> [ blockType |-> Leaf,
                      creation |-> Nested({ "variableName", "listName" }) ],
      connect_blocks |-> [ sourceBlockIndex |-> Leaf,
                           targetBlockIndex |-> Leaf,
                           placement |-> Nested({ "kind", "inputName" }) ],
      detach_blocks |-> [ blockIndex |-> Leaf ],
      set_block_field |-> [ blockIndex |-> Leaf, fieldName |-> Leaf,
                            value |-> Leaf ],
      delete_block |-> [ blockIndex |-> Leaf ],
      done |-> EmptyDict,
      failed |-> EmptyDict ]

\* faulty variant of _filter_args_by_schema: nothing is filtered out
FilterNothing(raw_args, schema) == raw_args

_filter_args_by_schema(raw_args, schema) ==
    [ key \in (DOMAIN schema) \cap (DOMAIN raw_args) |->
        IF ~schema[key].leaf /\ IsDict(raw_args[key])
        THEN PyDict({ p \in raw_args[key].d : p[1] \in schema[key].keys })
        ELSE raw_args[key] ]

\* str.strip() on the api names the model sends
strip(x) ==
    CASE x = "  " -> ""
      [] x = " delete_block " -> "delete_block"
      [] OTHER -> x

_sanitize_executed_args(api_name, raw_args) ==
    IF strip(api_name) \notin DOMAIN _COMPOSITE_CATALOG_ARG_SCHEMA
    THEN EmptyDict
    ELSE _filter_args_by_schema(raw_args,
                                _COMPOSITE_CATALOG_ARG_SCHEMA[strip(api_name)])

\* ok(data) and err(code, message) inside execute
ok(data) == [ ok |-> TRUE, data |-> data, error |-> [ code |-> "", message |-> "" ] ]
err(code, message) ==
    [ ok |-> FALSE, data |-> ValuePayload(None),
      error |-> [ code |-> code, message |-> message ] ]

\* success_response / error_response inside execute: the executed args go
\* through the schema filter of the api (no caller passes executed_api)
success_response(session_id, api, args, data, executed_args) ==
    build_success_response(
        [ api |-> api, args |-> args ],
        [ api |-> api, args |-> _sanitize_executed_args(api, executed_args) ],
        normalize_composite_data(data, api),
        build_meta(session_id))

error_response(session_id, api, args, code, message, executed_args) ==
    build_error_response(
        [ api |-> api, args |-> args ],
        [ api |-> api, args |-> _sanitize_executed_args(api, executed_args) ],
        [ code |-> code, message |-> message ],
        EmptyDict,
        build_meta(session_id))

from_legacy_result(session_id, api, args, result, executed_args) ==
    IF result.ok
    THEN success_response(session_id, api, args, result.data, executed_args)
    ELSE error_response(session_id, api, args, result.error.code,
                        result.error.message, executed_args)

\* What page.evaluate can hand back: it throws, it returns something that is
\* not a dict, or it returns a dict.  m holds the keys of the dict other than
\* "data"; data is << >> when the dict has no "data" key.
Throws == [ kind |-> "throw", m |-> EmptyDict, data |-> << >> ]
NotADict == [ kind |-> "value", m |-> EmptyDict, data |-> << >> ]
Returns(m) == [ kind |-> "dict", m |-> m, data |-> << >> ]
ReturnsData(m, data) == [ kind |-> "dict", m |-> m, data |-> << data >> ]

\* error.get(key, default) on the error dict of an engine result
ErrorField(error, key, default) ==
    IF HasKey(error, key) THEN Item(error, key) ELSE default

\* _execute_js_script: never raises; any exception becomes JAVASCRIPT_ERROR
_execute_js_script(raw) ==
    CASE raw.kind = "throw" ->
            err("JAVASCRIPT_ERROR", "Failed to execute JavaScript")
      [] raw.kind = "value" ->
            err("JAVASCRIPT_ERROR", "Malformed result from page context")
      [] OTHER ->
            LET error == Get(raw.m, "error") IN
            IF Get(raw.m, "success") = PyBool(TRUE)
            THEN ok(DictPayload(raw.m))
            ELSE IF Truthy(error)
            THEN IF IsDict(error)
                 THEN err(ErrorField(error, "code", "EXECUTION_ERROR"),
                          ErrorField(error, "message", "Execution error"))
                 ELSE err("EXECUTION_ERROR", StrOf(error))
            ELSE IF Get(raw.m, "ok") = PyBool(TRUE)
            THEN ok(IF raw.data = << >> THEN DictPayload(raw.m) ELSE raw.data[1])
            ELSE IF Get(raw.m, "ok") = PyBool(FALSE)
            THEN IF "error" \in DOMAIN raw.m /\ ~IsDict(error)
                 THEN \* error.get on None, "" or 0: AttributeError, caught
                      err("JAVASCRIPT_ERROR", "Failed to execute JavaScript")
                 ELSE err("ERROR", "Operation failed")
            ELSE err("UNKNOWN_ERROR", "Unknown response format")

\* str.upper() on the field names the model sends
upper(x) ==
    CASE x = "variable" -> "VARIABLE"
      [] x = "list" -> "LIST"
      [] OTHER -> x

\* The name-to-id snapshot is a dict of dicts: its pairs are
\* <<category, name, id>>.  name in mappings.get(category, {})
Mapped(mappings, category, name) ==
    \E p \in mappings.d : p[1] = category /\ p[2] = name
MappedId(mappings, category, name) ==
    (CHOOSE p \in mappings.d : p[1] = category /\ p[2] = name)[3]

\* the categories _translate_value_to_id searches for a field key, in order
CategoriesOf(field_key) ==
    CASE field_key = "VARIABLE" -> << "variables", "stageVariables" >>
      [] field_key = "LIST" -> << "lists", "stageLists" >>
      [] field_key = "SOUND_MENU" -> << "sounds" >>
      [] field_key \in { "DISTANCETOMENU", "OBJECT" } ->
            << "sprites", "specialOptions" >>
      [] field_key \in { "CURRENTMENU", "PROPERTY" } -> << "specialOptions" >>
      [] OTHER -> << >>

\* faulty variant of _translate_value_to_id: the value is sent as given
NotTranslated(mappings, value, field_name) == value

_translate_value_to_id(mappings, value, field_name) ==
    IF ~Truthy(mappings) \/ value.t # "str"
    THEN value
    ELSE LET field_key == IF field_name.t = "str" THEN upper(field_name.s) ELSE ""
             cats == CategoriesOf(field_key)
             hits == { i \in 1 .. Len(cats) : Mapped(mappings, cats[i], value.s) }
         IN  IF hits = {}
             THEN value
             ELSE PyStr(MappedId(mappings,
                                 cats[CHOOSE i \in hits : \A j \in hits : i <= j],
                                 value.s))

\* ---- ScratchAPI.execute, up to the await of page.evaluate
\* The outcome of that half: the call returns an error envelope at once
\* (reject), raises inside the try block (raise), or sends a script to the
\* engine (dispatch).  payload is what the script is given (a bare value is
\* held under the key "arg"), block_ids the identifiers read from the cache.
Reject(code, message) ==
    [ kind |-> "reject", code |-> code, message |-> message, script |-> "",
      payload |-> EmptyDict, executed_args |-> EmptyDict, block_ids |-> << >> ]

\* an exception raised by the code inside the try block
Raise == [ Reject("", "") EXCEPT !.kind = "raise" ]

Send(script, payload, executed_args, block_ids) ==
    [ kind |-> "dispatch", code |-> "", message |-> "", script |-> script,
      payload |-> payload, executed_args |-> executed_args,
      block_ids |-> block_ids ]

\* v or ""
OrEmpty(v) == IF Truthy(v) THEN v ELSE PyStr("")

\* a or b
Either(a, b) == IF Truthy(a) THEN a ELSE b

\* not isinstance(i, int) or i < 1
BadIndex(i) == ~IsInt(i) \/ i.n < 1

\* faulty variant of CacheAbsent: an empty cache is never reported
CacheNeverAbsent(cache) == FALSE

\* self.cached_idx_to_block is None
CacheAbsent(cache) == cache.t = "none"

\* faulty variant of BlockIdAt: the first entry of the cache, whatever the index
FirstBlockId(cache, index) == (CHOOSE p \in cache.d : TRUE)[2]

\* self.cached_idx_to_block[str(index)]["id"]
BlockIdAt(cache, index) == Item(cache, StrOf(index))

\* the cache gate shared by the index-addressed commands
Gate(cache, indices, messages, go) ==
    IF CacheAbsent(cache)
    THEN Reject("INVALID_STATE",
                "No cached block data. Call get_blocks_pseudocode first.")
    ELSE LET missing == { i \in 1 .. Len(indices) :
                            ~HasKey(cache, StrOf(indices[i])) }
         IN  IF missing # {}
             THEN Reject("NOT_FOUND",
                         messages[CHOOSE i \in missing : \A j \in missing : i <= j])
             ELSE go

NoArgCommands == { "run_project", "stop_project", "select_stage",
                   "get_blocks_pseudocode", "get_blocks_structure" }

NamedCommand(api, args, keys, message) ==
    LET name == OrEmpty(IF Len(keys) = 2
                        THEN Either(Get(args, keys[1]), Get(args, keys[2]))
                        ELSE Get(args, keys[1]))
    IN  IF name.t # "str" THEN Raise
        ELSE IF strip(name.s) = "" THEN Reject("INVALID_ARG", message)
        ELSE Send(api, ("arg" :> PyStr(strip(name.s))),
                  (keys[1] :> PyStr(strip(name.s))), << >>)

DeclareCommand(api, args) ==
    LET name == OrEmpty(Get(args, "name"))
        scope == OrEmpty(Get(args, "scope"))
    IN  IF name.t # "str" \/ scope.t # "str" THEN Raise
        ELSE IF strip(name.s) = "" THEN Reject("INVALID_ARG", "'name' is required")
        ELSE IF strip(scope.s) \notin { "sprite", "all" }
        THEN Reject("INVALID_ARG", "'scope' must be 'sprite' or 'all'")
        ELSE LET base == ("name" :> PyStr(strip(name.s)))
                         @@ ("scope" :> PyStr(strip(scope.s)))
                 payload == IF api = "add_variable"
                            THEN base @@ ("cloud" :> PyBool(Truthy(Get(args, "cloud"))))
                            ELSE base
             IN  Send(api, payload, payload, << >>)

AddBlock(args) ==
    LET block_type == OrEmpty(Get(args, "blockType"))
    IN  IF block_type.t # "str" THEN Raise
        ELSE IF strip(block_type.s) = ""
        THEN Reject("INVALID_ARG", "'blockType' is required")
        ELSE LET payload == ("blockType" :> PyStr(strip(block_type.s)))
                            @@ ("creation" :> Get(args, "creation"))
             IN  Send("add_block", payload, payload, << >>)

SetBlockField(args, cache, mappings) ==
    LET block_index == Get(args, "blockIndex")
        field_name == Get(args, "fieldName")
        value == Get(args, "value")
    IN  IF BadIndex(block_index)
        THEN Reject("INVALID_ARG", "'blockIndex' must be a positive integer")
        ELSE IF ~Truthy(field_name)
        THEN Reject("INVALID_ARG", "'fieldName' is required")
        ELSE IF "value" \notin DOMAIN args
        THEN Reject("INVALID_ARG", "'value' is required")
        ELSE Gate(cache, << block_index >>, << "Block not found at index" >>,
                  LET block_id == BlockIdAt(cache, block_index)
                      translated_value ==
                          IF Truthy(mappings)
                          THEN _translate_value_to_id(mappings, value, field_name)
                          ELSE value
                  IN  Send("set_block_field",
                           ("blockId" :> PyStr(block_id))
                               @@ ("fieldName" :> field_name)
                               @@ ("value" :> translated_value),
                           ("blockIndex" :> block_index)
                               @@ ("fieldName" :> field_name)
                               @@ ("value" :> value),
                           << block_id >>))

ConnectBlocks(args, cache) ==
    LET source_idx == Get(args, "sourceBlockIndex")
        target_idx == Get(args, "targetBlockIndex")
        placement == Either(Get(args, "placement"), PyDict({}))
        kind == IF IsDict(placement) /\ HasKey(placement, "kind")
                THEN Item(placement, "kind") ELSE ""
        input_name == IF IsDict(placement) /\ HasKey(placement, "inputName")
                      THEN Item(placement, "inputName") ELSE ""
    IN  IF BadIndex(source_idx)
        THEN Reject("INVALID_ARG", "'sourceBlockIndex' must be a positive integer")
        ELSE IF BadIndex(target_idx)
        THEN Reject("INVALID_ARG", "'targetBlockIndex' must be a positive integer")
        ELSE IF ~IsDict(placement) \/ kind = ""
        THEN Reject("INVALID_ARG", "'placement.kind' is required")
        ELSE IF kind \in { "statement_into", "value_into" } /\ input_name = ""
        THEN Reject("INVALID_ARG", "'inputName' is required")
        ELSE Gate(cache, << source_idx, target_idx >>,
                  << "Source block not found at index",
                     "Target block not found at index" >>,
                  LET source_id == BlockIdAt(cache, source_idx)
                      target_id == BlockIdAt(cache, target_idx)
                  IN  Send("connect_blocks",
                           ("sourceId" :> PyStr(source_id))
                               @@ ("targetId" :> PyStr(target_id))
                               @@ ("placement" :> placement),
                           ("sourceBlockIndex" :> source_idx)
                               @@ ("targetBlockIndex" :> target_idx)
                               @@ ("placement" :> placement),
                           << source_id, target_id >>))

DetachBlocks(args, cache) ==
    LET block_index == Get(args, "blockIndex")
    IN  IF BadIndex(block_index)
        THEN Reject("INVALID_ARG", "'blockIndex' must be a positive integer")
        ELSE Gate(cache, << block_index >>, << "Block not found at index" >>,
                  LET block_id == BlockIdAt(cache, block_index)
                  IN  Send("detach_blocks",
                           ("blockId" :> PyStr(block_id)),
                           ("blockIndex" :> block_index)
                               @@ ("blockId" :> PyStr(block_id)),
                           << block_id >>))

DeleteBlock(args, cache) ==
    LET block_index == IF "blockIndex" \in DOMAIN args
                       THEN args["blockIndex"] ELSE Get(args, "index")
    IN  IF BadIndex(block_index)
        THEN Reject("INVALID_ARG", "'blockIndex' must be a positive integer")
        ELSE Gate(cache, << block_index >>, << "Block not found at index" >>,
                  LET target_block_id == BlockIdAt(cache, block_index)
                  IN  Send("delete_block",
                           ("arg" :> PyStr(target_block_id)),
                           ("blockIndex" :> block_index),
                           << target_block_id >>))

CustomJs(args) ==
    LET js_fn_src == OrEmpty(Either(Get(args, "fn"),
                                    Either(Get(args, "function"), Get(args, "code"))))
    IN  IF js_fn_src.t # "str" THEN Raise
        ELSE IF strip(js_fn_src.s) = ""
        THEN Reject("INVALID_ARG", "'fn' (JS function source) is required")
        ELSE LET fn == ("fn" :> PyStr(strip(js_fn_src.s)))
                 executed_args == IF "payload" \in DOMAIN args
                                  THEN fn @@ ("payload" :> args["payload"])
                                  ELSE fn
             IN  Send("custom_js",
                      ("fnSrc" :> PyStr(strip(js_fn_src.s)))
                          @@ ("payload" :> Get(args, "payload")),
                      executed_args, << >>)

\* execute before its await, for the stripped api name
Before(api, args, cache, mappings) ==
    CASE api = "" -> Reject("INVALID_ARG", "Missing 'api' field")
      [] api \in NoArgCommands -> Send(api, EmptyDict, EmptyDict, << >>)
      [] api = "select_category" ->
            NamedCommand(api, args, << "category", "category_name" >>,
                         "'category' is required")
      [] api = "select_sprite" ->
            NamedCommand(api, args, << "name" >>, "'name' is required")
      [] api \in { "add_variable", "add_list" } -> DeclareCommand(api, args)
      [] api = "add_block" -> AddBlock(args)
      [] api = "set_block_field" -> SetBlockField(args, cache, mappings)
      [] api = "connect_blocks" -> ConnectBlocks(args, cache)
      [] api = "detach_blocks" -> DetachBlocks(args, cache)
      [] api = "delete_block" -> DeleteBlock(args, cache)
      [] api = "custom_js" -> CustomJs(args)
      [] OTHER -> Reject("UNSUPPORTED", "Unsupported api")

\* ---- ScratchAPI.execute, after page.evaluate has come back
\* The outcome of that half: the envelope, and what it assigns to the two
\* caches (<< >> leaves a cache alone, << v >> assigns v).
\* raised says that the half ended in an exception instead of a return.
Done(env, idx, map) == [ env |-> env, idx |-> idx, map |-> map, raised |-> FALSE ]

NoEnvelope == [ success |-> FALSE,
                requested_action |-> [ api |-> "", args |-> EmptyDict ],
                executed_action |-> [ api |-> "", args |-> EmptyDict ],
                data |-> EmptyDict, error |-> null,
                meta |-> build_meta("") ]

Thrown(idx) == [ env |-> NoEnvelope, idx |-> idx, map |-> << >>, raised |-> TRUE ]

\* faulty variant of Invalidate: the cache is left as it is
KeepCache == << >>

\* self.cached_idx_to_block = None
Invalidate == << None >>

\* faulty variant of TryExcept: the exception leaves execute
NoExcept(session_id, api, args, done) == done

\* try: ... except Exception: return error_response("RUNTIME_ERROR", ...)
TryExcept(session_id, api, args, done) ==
    IF done.raised
    THEN Done(error_response(session_id, api, args, "RUNTIME_ERROR",
                             "Execution failed", args),
              done.idx, done.map)
    ELSE done

PseudocodeKeys == { "pseudocode", "idxToBlock", "targetName", "targetId",
                    "availableChoices", "availableTargets", "valueToIdMappings",
                    "targetVariables", "targetLists" }

StructureData(m) ==
    [ pseudocode |-> Get(m, "pseudocode"), blocks |-> Get(m, "idxToBlock"),
      idToBlock |-> Get(m, "idToBlock"), targetName |-> Get(m, "targetName"),
      isStage |-> Get(m, "isStage") ]

\* the inner try block of custom_js, which calls page.evaluate itself
AfterCustomJs(session_id, api, args, plan, raw) ==
    LET fail(code, message) ==
            error_response(session_id, api, args, code, message, plan.executed_args)
        error == Either(Get(raw.m, "error"), PyDict({}))
    IN  CASE raw.kind = "throw" ->
                fail("JAVASCRIPT_ERROR", "Failed to execute custom JS")
          [] raw.kind = "value" ->
                fail("JAVASCRIPT_ERROR", "Malformed result from page context")
          [] OTHER ->
                IF Get(raw.m, "success") = PyBool(TRUE)
                THEN success_response(session_id, api, args,
                                      IF raw.data = << >> THEN ValuePayload(None)
                                      ELSE raw.data[1],
                                      plan.executed_args)
                ELSE IF ~IsDict(error)
                THEN fail("JAVASCRIPT_ERROR", "Failed to execute custom JS")
                ELSE fail(ErrorField(error, "code", "CUSTOM_JS_ERROR"),
                          ErrorField(error, "message", "Custom JS execution failed"))

AfterBody(session_id, api, args, plan, raw) ==
    LET result == _execute_js_script(raw)
        data == result.data
        legacy == from_legacy_result(session_id, api, args, result, plan.executed_args)
        good(payload) == success_response(session_id, api, args, DictPayload(payload),
                                          plan.executed_args)
    IN  CASE api = "custom_js" ->
                Done(AfterCustomJs(session_id, api, args, plan, raw), << >>, << >>)
          [] ~result.ok -> Done(legacy, << >>, << >>)
          [] api = "add_block" ->
                IF ~data.isdict THEN Thrown(Invalidate)
                ELSE Done(good(("blockId" :> Get(data.m, "blockId"))
                               @@ ("connected" :> PyBool(FALSE))),
                          Invalidate, << >>)
          [] api = "get_blocks_pseudocode" ->
                IF ~data.isdict THEN Thrown(<< >>)
                ELSE Done(good([ k \in PseudocodeKeys |-> Get(data.m, k) ]),
                          << Get(data.m, "idxToBlock") >>,
                          << Get(data.m, "valueToIdMappings") >>)
          [] api = "get_blocks_structure" ->
                IF ~data.isdict THEN Thrown(<< >>)
                ELSE Done(good(StructureData(data.m)),
                          << Get(data.m, "idxToBlock") >>, << >>)
          [] api = "set_block_field" ->
                IF ~data.isdict THEN Thrown(<< >>)
                ELSE Done(good([ updated |-> IF "updated" \in DOMAIN data.m
                                             THEN data.m["updated"] ELSE PyInt(1),
                                 blockIndex |-> plan.executed_args["blockIndex"],
                                 blockId |-> plan.payload["blockId"],
                                 fieldName |-> plan.payload["fieldName"],
                                 value |-> Get(data.m, "value"),
                                 originalValue |-> plan.executed_args["value"],
                                 translatedValue |-> plan.payload["value"] ]),
                          << >>, << >>)
          [] api \in { "connect_blocks", "detach_blocks" } ->
                Done(legacy, Invalidate, << >>)
          [] api = "delete_block" ->
                IF ~data.isdict THEN Thrown(Invalidate)
                ELSE Done(good([ deleted |-> PyBool(TRUE),
                                 index |-> plan.executed_args["blockIndex"],
                                 blockId |-> plan.payload["arg"],
                                 blockInfo |-> Get(data.m, "deletedBlock") ]),
                          Invalidate, << >>)
          [] api \in { "add_variable", "add_list" } ->
                Done(good([ created |-> normalize_composite_data(data, api) ]),
                     << >>, << >>)
          [] OTHER -> Done(legacy, << >>, << >>)

After(session_id, api, args, plan, raw) ==
    TryExcept(session_id, api, args, AfterBody(session_id, api, args, plan, raw))

\* the first half as an outcome, for a call that never reaches the engine
Rejected(session_id, api, args, plan) ==
    TryExcept(session_id, api, args,
              IF plan.kind = "raise"
              THEN Thrown(<< >>)
              ELSE Done(error_response(session_id, api, args, plan.code,
                                       plan.message, args),
                        << >>, << >>))

\* execute from call to return, when nothing else runs in between
execute(session_id, api, args, cache, mappings, raw) ==
    LET plan == Before(strip(api), args, cache, mappings)
    IN  IF plan.kind = "dispatch"
        THEN After(session_id, strip(api), args, plan, raw)
        ELSE Rejected(session_id, strip(api), args, plan)

\* ---- the engine, seen from execute
\* The scripts run in the page are not part of the Python sources; what they
\* return is any of the shapes _execute_js_script tells apart.  Two index
\* maps and one name-to-id snapshot stand for what a describe script finds;
\* a block's info is reduced to its id.
MapAB == PyDict({ << "1", "blk_a" >>, << "2", "blk_b" >> })
MapB == PyDict({ << "1", "blk_b" >> })
Names == PyDict({ << "variables", "score", "var_score" >>,
                  << "stageVariables", "total", "var_total" >>,
                  << "sprites", "Cat", "spr_cat" >> })

Succeeds(fields) == Returns(("success" :> PyBool(TRUE)) @@ fields)

DescribeScripts == { "get_blocks_pseudocode", "get_blocks_structure" }
MutatingScripts == { "add_block", "connect_blocks", "detach_blocks", "delete_block" }

SuccessResults(script) ==
    IF script \in DescribeScripts
    THEN { Succeeds(("idxToBlock" :> MapAB) @@ ("valueToIdMappings" :> Names)
                    @@ ("pseudocode" :> PyStr("[1] when flag clicked"))),
           Succeeds(("idxToBlock" :> MapB)
                    @@ ("pseudocode" :> PyStr("[1] move 10 steps"))),
           Succeeds(("pseudocode" :> PyStr(""))),
           ReturnsData(("ok" :> PyBool(TRUE)),
                       DictPayload(("idxToBlock" :> MapAB))) }
    ELSE IF script = "custom_js"
    THEN { Succeeds(EmptyDict),
           ReturnsData(("success" :> PyBool(TRUE)), ValuePayload(PyInt(3))),
           ReturnsData(("success" :> PyBool(TRUE)),
                       DictPayload(("success" :> PyBool(TRUE))
                                   @@ ("moved" :> PyInt(1)))) }
    ELSE { Succeeds(("blockId" :> PyStr("blk_c")) @@ ("api" :> PyStr(script))),
           Succeeds(("result" :> PyDict({ << "success", "yes" >>,
                                          << "moved", "1" >> }))),
           ReturnsData(("ok" :> PyBool(TRUE)),
                       DictPayload(("blockId" :> PyStr("blk_c")))) }

OtherResults ==
    { Throws,
      NotADict,
      Returns(("success" :> PyBool(FALSE))
              @@ ("error" :> PyDict({ << "code", "BLOCK_NOT_FOUND" >>,
                                      << "message", "no such block" >> }))),
      Returns(("error" :> PyDict({ << "message", "no code given" >> }))),
      Returns(("error" :> PyStr("boom"))),
      Returns(("ok" :> PyBool(FALSE))),
      Returns(("ok" :> PyBool(FALSE)) @@ ("error" :> None)),
      Returns(("success" :> PyInt(1))),
      \* legacy format whose data is not a dict
      ReturnsData(("ok" :> PyBool(TRUE)), ValuePayload(PyStr("done"))) }

EngineResults(script) == SuccessResults(script) \cup OtherResults

\* ---- the command layer of the sessions, step by step
MaxInflight == 2    \* execute calls suspended in the engine at one time

\* the composite requests sent to a session whose cache is followed
CacheRequests ==
    { [ api |-> "get_blocks_pseudocode", args |-> EmptyDict ],
      [ api |-> "get_blocks_structure", args |-> EmptyDict ],
      [ api |-> "add_block", args |-> ("blockType" :> PyStr("motion_movesteps")) ],
      [ api |-> "connect_blocks",
        args |-> ("sourceBlockIndex" :> PyInt(2)) @@ ("targetBlockIndex" :> PyInt(1))
                 @@ ("placement" :> PyDict({ << "kind", "stack_after" >> })) ],
      [ api |-> "detach_blocks", args |-> ("blockIndex" :> PyInt(1)) ],
      [ api |-> "delete_block", args |-> ("blockIndex" :> PyInt(2)) ],
      [ api |-> "set_block_field",
        args |-> ("blockIndex" :> PyInt(1)) @@ ("fieldName" :> PyStr("VARIABLE"))
                 @@ ("value" :> PyStr("score")) ],
      [ api |-> "detach_blocks", args |-> ("blockIndex" :> PyStr("1")) ],
      [ api |-> "select_sprite", args |-> ("name" :> PyStr("Cat")) ] }

\* the second session is sent a shorter list: a describe and a mutation
RequestsOf(s) ==
    IF s = "A" THEN CacheRequests
    ELSE { r \in CacheRequests : r.api \in { "get_blocks_pseudocode", "add_block" } }

\* an assignment made by a half of execute, applied to a cache
Assign(cache, w) == IF w = << >> THEN cache ELSE w[1]

\* the error code of an envelope, "" for a success envelope
CodeOf(env) == IF env.error = null THEN "" ELSE env.error[1].code

\* snapshot[s] follows what the engine told session s: the index map of the
\* last describe the engine answered, Cleared once the engine has carried out
\* a mutation after it, None on a session never described
Cleared == PyStr("cleared")

\* faulty variant of Store: one cache shared by every session
StoreShared(field, s, w) == [ t \in DOMAIN field |-> Assign(field[t], w) ]

\* faulty variant of Store: the field is reset whenever a call returns
StoreInvalidating(field, s, w) == [ field EXCEPT ![s] = IF w = << >> THEN None ELSE w[1] ]

\* an assignment to a field of sess.scratch_api, the ScratchAPI of session s
Store(field, s, w) == [ field EXCEPT ![s] = Assign(@, w) ]

\* execute is called on session s and runs up to its await
Dispatch(s, r) ==
    \E plan \in { Before(strip(r.api), r.args, cached_idx_to_block[s],
                         cached_value_to_id_mappings[s]) } :
        LET api == strip(r.api)
            pending == [ n |-> 0, sid |-> s, api |-> api, args |-> r.args, plan |-> plan ]
            \* calls suspended with the same arguments are told apart by a number
            free == CHOOSE n \in 1 .. MaxInflight :
                        /\ [ pending EXCEPT !.n = n ] \notin inflight
                        /\ \A k \in 1 .. n - 1 : [ pending EXCEPT !.n = k ] \in inflight
        IN  /\ Cardinality(inflight) < MaxInflight
            /\ IF plan.kind = "dispatch"
               THEN /\ inflight' = inflight \cup { [ pending EXCEPT !.n = free ] }
                    /\ resp' = [ op |-> "dispatch", sid |-> s, api |-> api,
                                 code |-> "", sent |-> plan.block_ids ]
                    /\ UNCHANGED << cached_idx_to_block, cached_value_to_id_mappings >>
               ELSE \E out \in { Rejected(s, api, r.args, plan) } :
                    /\ inflight' = inflight
                    /\ resp' = [ op |-> IF out.raised THEN "raised" ELSE "reject",
                                 sid |-> s, api |-> api,
                                 code |-> CodeOf(out.env), sent |-> << >> ]
                    /\ cached_idx_to_block' = Store(cached_idx_to_block, s, out.idx)
                    /\ cached_value_to_id_mappings' =
                           Store(cached_value_to_id_mappings, s, out.map)
            /\ UNCHANGED << snapshot, poolVars, clientVars >>

\* page.evaluate comes back to the suspended call p, which runs to its return
Complete(p, raw) ==
    \E out \in { After(p.sid, p.api, p.args, p.plan, raw) } :
        LET engine_ok == p.api # "custom_js" /\ _execute_js_script(raw).ok
            \* of calls suspended with the same arguments, the numbers stay 1 .. k
            same == { q \in inflight : [ q EXCEPT !.n = p.n ] = p }
            last == CHOOSE q \in same : \A o \in same : o.n <= q.n
        IN  /\ p \in inflight
            /\ p.n = 1
            /\ inflight' = inflight \ { last }
            /\ cached_idx_to_block' = Store(cached_idx_to_block, p.sid, out.idx)
            /\ cached_value_to_id_mappings' =
                   Store(cached_value_to_id_mappings, p.sid, out.map)
            /\ snapshot' =
                   [ snapshot EXCEPT ![p.sid] =
                       IF p.api \in DescribeScripts /\ out.idx # << >> THEN out.idx[1]
                       ELSE IF p.api \in MutatingScripts /\ engine_ok THEN Cleared
                       ELSE @ ]
            /\ resp' = [ op |-> IF out.raised THEN "raised" ELSE "complete",
                         sid |-> p.sid, api |-> p.api,
                         code |-> CodeOf(out.env), sent |-> << >> ]
            /\ UNCHANGED << poolVars, clientVars >>

\* -------------------------------------------------- interaction_handlers.py

_key_aliases ==
    [ ctrl |-> "Control", control |-> "Control", cmd |-> "Meta",
      command |-> "Meta", meta |-> "Meta", win |-> "Meta", windows |-> "Meta",
      alt |-> "Alt", option |-> "Alt", shift |-> "Shift", esc |-> "Escape",
      escape |-> "Escape", enter |-> "Enter", return |-> "Enter", tab |-> "Tab",
      space |-> "Space", spacebar |-> "Space", backspace |-> "Backspace",
      bksp |-> "Backspace", delete |-> "Delete", del |-> "Delete",
      insert |-> "Insert", ins |-> "Insert", home |-> "Home", end |-> "End",
      pageup |-> "PageUp", pgup |-> "PageUp", pagedown |-> "PageDown",
      pgdn |-> "PageDown", left |-> "ArrowLeft", right |-> "ArrowRight",
      up |-> "ArrowUp", down |-> "ArrowDown", arrowleft |-> "ArrowLeft",
      arrowright |-> "ArrowRight", arrowup |-> "ArrowUp",
      arrowdown |-> "ArrowDown" ]

\* str.strip(), str.lower() and re.sub(r"[^a-z0-9]", "", .) on the key names
\* the model sends
StripKey(x) == IF x = " esc " THEN "esc" ELSE IF x = " " THEN "" ELSE x
lower(x) ==
    CASE x = "Enter" -> "enter"
      [] x = "CTRL" -> "ctrl"
      [] x = "F5" -> "f5"
      [] OTHER -> x
Compact(x) ==
    CASE x = "page-down" -> "pagedown"
      [] x = "arrow_left" -> "arrowleft"
      [] OTHER -> x

\* re.fullmatch(r"f\d{1,2}", .) on those names
IsFunctionKey(x) == x \in { "f5", "f12" }
UpperKey(x) == IF x = "f5" THEN "F5" ELSE IF x = "f12" THEN "F12" ELSE x

\* faulty variant of _normalize_key_for_playwright: the name as given
KeyAsGiven(key) == key

_normalize_key_for_playwright(key) ==
    LET raw == StripKey(key)
        lowered == lower(raw)
        compact == Compact(lowered)
    IN  IF raw = "" THEN raw
        ELSE IF lowered \in DOMAIN _key_aliases THEN _key_aliases[lowered]
        ELSE IF compact \in DOMAIN _key_aliases THEN _key_aliases[compact]
        ELSE IF IsFunctionKey(lowered) THEN UpperKey(lowered)
        ELSE raw

_build_primitive_success_response(session_id, api, requested_args, executed_args) ==
    build_success_response([ api |-> api, args |-> requested_args ],
                           [ api |-> api, args |-> executed_args ],
                           EmptyDict, build_meta(session_id))

_build_primitive_error_response(session_id, api, requested_args, executed_args, code, message) ==
    build_error_response([ api |-> api, args |-> requested_args ],
                         [ api |-> api, args |-> executed_args ],
                         [ code |-> code, message |-> message ],
                         EmptyDict, build_meta(session_id))

\* _keyboard_error_code: Playwright's "Unknown key" is the caller's mistake
_keyboard_error_code(exc) ==
    IF exc = "unknown_key" THEN "INVALID_ARG" ELSE "ACTION_EXECUTION_ERROR"

\* what the page does with the mouse and keyboard calls of one handler
PageOutcomes == { "ok", "error", "unknown_key" }

KeyboardApis == { "type", "key", "hold_key", "release_key", "hotkey" }
MouseApis == { "click", "double_click", "move_to", "drag_and_drop", "scroll" }

\* executed_args as each handler builds it from the validated action
ExecutedArgs(api, action) ==
    CASE api \in { "click", "double_click" } ->
            Restrict(action, { "x", "y", "button" })
      [] api = "move_to" -> Restrict(action, { "x", "y", "duration" })
      [] api = "drag_and_drop" ->
            Restrict(action, { "start_x", "start_y", "end_x", "end_y", "duration" })
      [] api = "scroll" -> Restrict(action, { "direction", "amount", "x", "y" })
      [] api = "type" -> Restrict(action, { "text" })
      [] api \in { "key", "hold_key", "release_key" } ->
            ("key" :> PyStr(_normalize_key_for_playwright(action["key"].s)))
      [] api = "hotkey" ->
            LET keys == ItemsOf(action["keys"])
            IN  ("keys" :> PyList([ i \in 1 .. Len(keys) |->
                                      _normalize_key_for_playwright(keys[i]) ]))

\* The try block of one primitive handler.  action is the validated request
\* model dumped without its None fields; outcome is what the page answers to
\* the handler's first call to it, an exception unless it is "ok".
PrimitiveBody(session_id, api, action, outcome) ==
    LET executed_args == ExecutedArgs(api, action)
        good == Done(_build_primitive_success_response(session_id, api, action,
                                                       executed_args),
                     << >>, << >>)
        fail(code, message) ==
            Done(_build_primitive_error_response(session_id, api, action,
                                                 executed_args, code, message),
                 << >>, << >>)
        page == IF outcome = "ok" THEN good ELSE Thrown(<< >>)
    IN  CASE api = "scroll" ->
                IF { "x", "y" } \subseteq DOMAIN action /\ outcome # "ok"
                THEN Thrown(<< >>)
                ELSE IF action["direction"].s \notin { "up", "down", "left", "right" }
                THEN fail("INVALID_ARG", "Unsupported scroll direction")
                ELSE page
          [] api = "hotkey" /\ action["keys"].d = {} ->
                fail("INVALID_ARG", "Hotkey action failed: keys must not be empty")
          [] OTHER -> page

\* except Exception as e: return self._build_primitive_error_response(...)
HandlerExcept(session_id, api, action, outcome, done) ==
    IF done.raised
    THEN Done(_build_primitive_error_response(
                  session_id, api, action, ExecutedArgs(api, action),
                  IF api \in KeyboardApis /\ api # "type"
                  THEN _keyboard_error_code(outcome)
                  ELSE "ACTION_EXECUTION_ERROR",
                  "action failed"),
              << >>, << >>)
    ELSE done

\* one primitive handler, from call to return
PrimitiveHandler(session_id, api, action, outcome) ==
    HandlerExcept(session_id, api, action, outcome,
                  PrimitiveBody(session_id, api, action, outcome))

\* the primitive requests sent to a session whose cache is followed
Click(x, y) == ("x" :> PyInt(x)) @@ ("y" :> PyInt(y)) @@ ("button" :> PyStr("left"))

CachePrimitives == { [ api |-> "click", action |-> Click(10, 20) ] }

\* a primitive handler runs on session s: it has the page, not the ScratchAPI
PrimitiveCommand(s, q, outcome) ==
    /\ resp' = [ op |-> "primitive", sid |-> s, api |-> q.api,
                 code |-> CodeOf(PrimitiveHandler(s, q.api, q.action, outcome).env),
                 sent |-> << >> ]
    /\ UNCHANGED << cached_idx_to_block, cached_value_to_id_mappings, inflight,
                    snapshot, poolVars, clientVars >>

\* the pool stands still while the command layer is followed
PoolStart ==
    /\ LockIdle
    /\ _sessions = << >>
    /\ max_sessions = MaxCap
    /\ session_ttl = MaxTTL
    /\ now = 0
    /\ contexts = {}
    /\ nextCtx = 1
    /\ nextSid = 1
    /\ closing = {}
    /\ ca = IdleCA
    /\ useOrder = << >>
    /\ res = Quiet("init")

CacheInit == PoolStart /\ ApiStart /\ ClientStart

CacheNext ==
    \/ \E s \in SessionNames : \E r \in RequestsOf(s) : Dispatch(s, r)
    \/ \E p \in inflight : \E raw \in EngineResults(p.plan.script) : Complete(p, raw)
    \/ \E s \in SessionNames, q \in CachePrimitives, outcome \in PageOutcomes :
           PrimitiveCommand(s, q, outcome)

CacheSpec == CacheInit /\ [][CacheNext]_vars

\* ------------------------------------------- the index cache, C11 .. C14

\* C11: sessions are independent: a command executed on one session never
\* changes the index cache or the name-to-id mappings of another session.
C11_SessionsIndependent ==
    [][\A s \in SessionNames :
          resp'.sid # s =>
              /\ cached_idx_to_block'[s] = cached_idx_to_block[s]
              /\ cached_value_to_id_mappings'[s] = cached_value_to_id_mappings[s]]_vars

\* a mutation completed on A and cleared A's cache while B still holds its own
C11_Witness ==
    /\ resp.op = "complete" /\ resp.sid = "A" /\ resp.api \in MutatingScripts
    /\ resp.code = ""
    /\ cached_idx_to_block["A"] = None
    /\ cached_idx_to_block["B"] = MapAB
    /\ cached_value_to_id_mappings["B"] = Names

\* the index-addressed commands, and their requests with well-formed arguments
IndexApis == { "set_block_field", "connect_blocks", "detach_blocks", "delete_block" }

IndexKeys == { "blockIndex", "sourceBlockIndex", "targetBlockIndex", "index" }

WellFormed(r) ==
    /\ r.api \in IndexApis
    /\ \A k \in DOMAIN r.args \cap IndexKeys : ~BadIndex(r.args[k])

MissingIn(cache, r) ==
    { k \in DOMAIN r.args \cap IndexKeys : ~HasKey(cache, StrOf(r.args[k])) }

\* the call made by this step returned code without reaching the engine and
\* without touching the caches
FailsUntouched(code) ==
    /\ resp'.op = "reject" /\ resp'.code = code
    /\ inflight' = inflight
    /\ UNCHANGED << cached_idx_to_block, cached_value_to_id_mappings >>

SentIds(p) ==
    LET payload == p.plan.payload
    IN  IF p.api = "connect_blocks"
        THEN << payload["sourceId"].s, payload["targetId"].s >>
        ELSE IF p.api = "delete_block" THEN << payload["arg"].s >>
        ELSE << payload["blockId"].s >>

\* the identifiers index map M gives to the index arguments of request r
IdsIn(M, r) ==
    IF r.api = "connect_blocks"
    THEN << Item(M, StrOf(r.args["sourceBlockIndex"])),
            Item(M, StrOf(r.args["targetBlockIndex"])) >>
    ELSE << Item(M, StrOf(r.args["blockIndex"])) >>

\* C14: when the last describe answered for a session returned index map M
\* and the engine has carried out no mutation for it since, an index-addressed
\* command whose indices are in M is dispatched, with exactly the identifiers
\* M gives them.
C14_DispatchedWithSnapshotIds ==
    [][\A s \in SessionNames : \A r \in RequestsOf(s) :
          /\ WellFormed(r) /\ resp'.sid = s /\ resp'.api = r.api
          /\ snapshot[s].t = "dict" /\ MissingIn(snapshot[s], r) = {}
          /\ Dispatch(s, r)
          => /\ resp'.op = "dispatch"
             /\ \E p \in inflight' \ inflight :
                    /\ p.sid = s /\ p.api = r.api
                    /\ p.plan.script = r.api
                    /\ SentIds(p) = IdsIn(snapshot[s], r)]_vars

\* detach_blocks(1) is sent with blk_b, the block a later describe put at 1,
\* while the other session's index 1 is blk_a
C14_Witness ==
    /\ resp.op = "dispatch" /\ resp.api = "detach_blocks" /\ resp.sid = "A"
    /\ resp.sent = << "blk_b" >>
    /\ snapshot["A"] = MapB
    /\ snapshot["B"] = MapAB

\* -------------------------------------------------------- agent_client.py

\* _safe_action_obj: the callers pass {"api": str, "args": dict}
_safe_action_obj(action) == [ api |-> action.api, args |-> action.args ]

_build_error_envelope(requested_action, executed_action, code, message) ==
    [ success |-> FALSE,
      requested_action |-> _safe_action_obj(requested_action),
      executed_action |-> _safe_action_obj(executed_action),
      data |-> EmptyDict,
      error |-> << [ code |-> code, message |-> message ] >>,
      meta |-> EmptyDict ]

\* ---- what response.json() hands to the client after a POST
\* kind "raise": no usable reply (connection error, a status raise_for_status
\* rejects, a body that is not JSON); kind "value": JSON that is not an
\* object; kind "json": an object with the keys `keys`, whose members are
\* those of the envelope `body` except the one `fault` names, which has a
\* type the envelope does not allow.
required_keys ==
    { "success", "requested_action", "executed_action", "data", "error", "meta" }

NoReply == [ kind |-> "raise", keys |-> {}, fault |-> "", body |-> NoEnvelope ]

NotAnObject == [ kind |-> "value", keys |-> {}, fault |-> "", body |-> NoEnvelope ]

Json(keys, fault, body) ==
    [ kind |-> "json", keys |-> keys, fault |-> fault, body |-> body ]

\* sorted(raw.keys()), for the keys a reply of the model can have
KeyOrder == << "data", "detail", "error", "executed_action", "meta",
               "requested_action", "success" >>

sorted(keys) == SelectSeq(KeyOrder, LAMBDA k : k \in keys)

\* {"raw_keys": sorted(raw.keys())}
RawKeysData(keys) == ("raw_keys" :> PyList(sorted(keys)))

\* faulty variant of ErrorOf: the error of the reply is kept on success too
ErrorKept(success, error) == error

\* error_obj = None if success else {"code": ..., "message": ...}
ErrorOf(success, error) == IF success THEN null ELSE error

_to_unified_envelope(raw, requested_action, executed_action, force_requested_action, force_executed_action) ==
    LET fallback_requested == _safe_action_obj(requested_action)
        fallback_executed == _safe_action_obj(executed_action)
        malformed(message) ==
            _build_error_envelope(fallback_requested, fallback_executed,
                                  "MALFORMED_RESPONSE", message)
    IN  IF raw.kind # "json"
        THEN malformed("Expected dict response")
        ELSE IF ~(required_keys \subseteq raw.keys)
        THEN [ malformed("Missing required envelope keys")
                   EXCEPT !.data = RawKeysData(raw.keys) ]
        ELSE IF raw.fault = "success"
        THEN malformed("'success' must be bool")
        ELSE IF ~force_requested_action /\ raw.fault = "requested_action"
        THEN malformed("Invalid 'requested_action' object in response")
        ELSE IF ~force_executed_action /\ raw.fault = "executed_action"
        THEN malformed("Invalid 'executed_action' object in response")
        ELSE IF raw.fault = "data"
        THEN malformed("Invalid 'data' object in response")
        ELSE IF raw.fault = "meta"
        THEN malformed("Invalid 'meta' object in response")
        ELSE IF ~raw.body.success /\ raw.fault = "error"
        THEN malformed("Missing or invalid 'error' object for failed response")
        ELSE IF ~raw.body.success /\ raw.fault = "error.code"
        THEN malformed("Error object must include 'code' and 'message'")
        ELSE [ success |-> raw.body.success,
               requested_action |->
                   IF force_requested_action THEN fallback_requested
                   ELSE _safe_action_obj(raw.body.requested_action),
               executed_action |->
                   IF force_executed_action THEN fallback_executed
                   ELSE _safe_action_obj(raw.body.executed_action),
               data |-> raw.body.data,
               error |-> ErrorOf(raw.body.success, raw.body.error),
               meta |-> raw.body.meta ]

\* ---- index resolution
\* An element of the list an observation stores: its position is absent, or
\* a box of integers (get_elements rounds the box of every element it keeps).
Box(x, y, width, height) ==
    [ position |-> TRUE, x |-> x, y |-> y, width |-> width, height |-> height ]

NoPosition == [ position |-> FALSE, x |-> 0, y |-> 0, width |-> 0, height |-> 0 ]

\* faulty variant of HasPosition: a missing position counts as a box of zeros
AnyPosition(element) == TRUE

\* position_data = element.get("position") or element.get("bbox")
HasPosition(element) == element.position

\* _parse_position_data on a dict of integers: (x, y, width, height)
_parse_position_data(element) ==
    << element.x, element.y, element.width, element.height >>

\* int(twice / 2): int() cuts the fraction off, toward zero
HalfTruncated(twice) == IF twice >= 0 THEN twice \div 2 ELSE -((-twice) \div 2)

\* int(x + width / 2)
Center(x, width) == HalfTruncated(2 * x + width)

\* The outcomes of _get_element_center_by_index: a pair of coordinates, a
\* ValueError, or the TypeError of comparing or subscripting with an index
\* that is not an integer.
Resolved(x, y) == [ kind |-> "ok", x |-> x, y |-> y ]
ValueError == [ kind |-> "ValueError", x |-> 0, y |-> 0 ]
TypeError == [ kind |-> "TypeError", x |-> 0, y |-> 0 ]

_get_element_center_by_index(elements, index) ==
    IF index.t \notin { "int", "bool", "float" } THEN TypeError
    ELSE IF index.t = "float"
    THEN IF index.n < 0 \/ index.n >= 10 * Len(elements)
         THEN ValueError ELSE TypeError
    ELSE IF index.n < 0 \/ index.n >= Len(elements) THEN ValueError
    ELSE LET element == elements[index.n + 1]
         IN  IF ~HasPosition(element) THEN ValueError
             ELSE LET box == _parse_position_data(element)
                  IN  Resolved(Center(box[1], box[3]), Center(box[2], box[4]))

\* One `if "<index>" in resolved_args:` block of _resolve_index_args, applied
\* to the outcome so far: the index is popped, and resolved when a coordinate
\* is missing.
ResolveOne(sofar, elements, index_key, x_key, y_key) ==
    IF sofar.kind # "ok" \/ index_key \notin DOMAIN sofar.args THEN sofar
    ELSE LET rest == Restrict(sofar.args, (DOMAIN sofar.args) \ { index_key })
             center == _get_element_center_by_index(elements, sofar.args[index_key])
         IN  IF x_key \in DOMAIN rest /\ y_key \in DOMAIN rest
             THEN [ kind |-> "ok", args |-> rest ]
             ELSE IF center.kind # "ok"
             THEN [ kind |-> center.kind, args |-> rest ]
             ELSE [ kind |-> "ok",
                    args |-> (x_key :> PyInt(center.x)) @@ (y_key :> PyInt(center.y))
                             @@ rest ]

\* _resolve_index_args: kind "ok" with the resolved arguments, "ValueError"
\* for the {"error": ...} it returns, "TypeError" for the exception it lets
\* through
_resolve_index_args(api_type, args, elements) ==
    LET start == [ kind |-> "ok", args |-> args ]
    IN  IF api_type \in { "click", "double_click", "move_to", "scroll" }
        THEN ResolveOne(start, elements, "index", "x", "y")
        ELSE IF api_type = "drag_and_drop"
        THEN ResolveOne(ResolveOne(start, elements, "start_index",
                                   "start_x", "start_y"),
                        elements, "end_index", "end_x", "end_y")
        ELSE start

\* ---- the service, as the client's POST reaches it
\* the request models of models.py: required fields, and defaults
RequiredFields(api) ==
    CASE api \in { "click", "double_click", "move_to" } -> { "x", "y" }
      [] api = "drag_and_drop" -> { "start_x", "start_y", "end_x", "end_y" }
      [] api = "scroll" -> { "direction" }
      [] api = "type" -> { "text" }
      [] api = "hotkey" -> { "keys" }
      [] OTHER -> { "key" }

Defaults(api) ==
    CASE api \in { "click", "double_click" } -> ("button" :> PyStr("left"))
      [] api \in { "move_to", "drag_and_drop" } -> ("duration" :> PyFloat(5))
      [] api = "scroll" -> ("amount" :> PyInt(100))
      [] OTHER -> EmptyDict

OptionalFields(api) ==
    IF api = "scroll" THEN { "amount", "x", "y" } ELSE DOMAIN Defaults(api)

\* The request body parsed into its model and dumped without None fields,
\* << >> when validation fails (422).  Fields the model does not declare are
\* ignored.
Validated(api, json) ==
    IF RequiredFields(api) \subseteq DOMAIN json
    THEN << Restrict(json, RequiredFields(api) \cup OptionalFields(api))
            @@ Defaults(api) >>
    ELSE << >>

\* the endpoint's reply: the envelope the dispatcher returned, or the 500
\* FastAPI answers when the dispatcher raised
Answer(done) == IF done.raised THEN NoReply ELSE Json(required_keys, "", done.env)

\* an error member a foreign server leaves in the reply of a success
StrayError == << [ code |-> "WARNING", message |-> "left over" ] >>

\* What the network and a foreign or older server can make of the reply:
\* the reply as it is, no reply, or a JSON body that is not the envelope.
Networks ==
    { "ok", "raise", "value", "no_error_key", "detail_only", "stray_error",
      "success", "data", "meta", "error", "error.code", "requested_action",
      "executed_action" }

Received(net, reply) ==
    IF reply.kind # "json" \/ net = "ok" THEN reply
    ELSE CASE net = "raise" -> NoReply
           [] net = "value" -> NotAnObject
           [] net = "no_error_key" ->
                  Json(required_keys \ { "error" }, "", reply.body)
           [] net = "detail_only" -> Json({ "detail" }, "", reply.body)
           [] net = "stray_error" ->
                  Json(required_keys, "",
                       IF reply.body.success
                       THEN [ reply.body EXCEPT !.error = StrayError ]
                       ELSE reply.body)
           [] OTHER -> Json(required_keys, net, reply.body)

\* ---- the client's calls, from call to return
\* The record of one call: what was posted (<< >> when nothing was), whether
\* the request reached the service's dispatcher and the dispatcher's outcome,
\* the reply received and the envelope returned to the caller.
Returned(op, api, args, posted, reached, done, served, out) ==
    [ op |-> op, api |-> api, args |-> args, posted |-> posted,
      reached |-> reached, done |-> done, served |-> served, out |-> out ]

NotPosted(op, api, args, out) ==
    Returned(op, api, args, << >>, FALSE, Thrown(<< >>), NoReply, out)

execute_primitive_action(session_id, api_type, args, elements, outcome, net) ==
    LET requested_action == [ api |-> api_type, args |-> args ]
        resolved == _resolve_index_args(api_type, args, elements)
        failure(code) ==
            _build_error_envelope(requested_action, requested_action, code, "failed")
    IN  IF resolved.kind = "TypeError"
        THEN NotPosted("primitive", api_type, args, failure("CLIENT_ERROR"))
        ELSE IF resolved.kind = "ValueError" \/ "error" \in DOMAIN resolved.args
        THEN NotPosted("primitive", api_type, args,
                       failure("INDEX_RESOLUTION_ERROR"))
        ELSE IF api_type \notin MouseApis \cup KeyboardApis
        THEN NotPosted("primitive", api_type, args, failure("UNSUPPORTED_ACTION"))
        ELSE LET request_payload == IF api_type \in MouseApis
                                    THEN resolved.args ELSE args
                 action == Validated(api_type, request_payload)
                 done == IF action = << >> THEN Thrown(<< >>)
                         ELSE PrimitiveHandler(session_id, api_type, action[1],
                                               outcome)
                 served == Received(net, IF action = << >> THEN NoReply
                                         ELSE Answer(done))
                 executed_action == [ api |-> api_type, args |-> request_payload ]
             IN  Returned("primitive", api_type, args,
                          << request_payload >>, action # << >>, done, served,
                          IF served.kind = "raise"
                          THEN failure("CLIENT_ERROR")
                          ELSE _to_unified_envelope(served, requested_action,
                                                    executed_action, TRUE,
                                                    api_type \in MouseApis))

execute_composite_action(session_id, api, args, cache, mappings, raw, net) ==
    LET requested_action == [ api |-> api, args |-> args ]
        done == execute(session_id, api, args, cache, mappings, raw)
        served == Received(net, Answer(done))
    IN  Returned("composite", api, args, << args >>, TRUE, done, served,
                 IF served.kind = "raise"
                 THEN _build_error_envelope(requested_action, requested_action,
                                            "CLIENT_ERROR", "failed")
                 ELSE _to_unified_envelope(served, requested_action,
                                           requested_action, FALSE, FALSE))

\* ---- the client and its observations, step by step
\* the element lists an observation can bring
ElementLists ==
    { << >>,
      << Box(10, 20, 30, 40) >>,
      << Box(100, 200, 31, 41), NoPosition, Box(-3, 7, 1, 5) >> }

Index(i) == ("index" :> PyInt(i))

\* the primitive calls of the agent
PrimitiveRequests ==
    { [ api |-> "click", args |-> Index(0) ],
      [ api |-> "click", args |-> Index(1) ],
      [ api |-> "double_click", args |-> Index(2) @@ ("button" :> PyStr("left")) ],
      [ api |-> "move_to", args |-> Index(3) ],
      [ api |-> "click", args |-> ("index" :> PyInt(-1)) ],
      [ api |-> "click", args |-> ("index" :> PyStr("0")) ],
      [ api |-> "click", args |-> Index(1) @@ ("x" :> PyInt(5)) @@ ("y" :> PyInt(6)) ],
      [ api |-> "click", args |-> Index(0) @@ ("x" :> PyInt(5)) ],
      [ api |-> "click", args |-> Click(7, 8) ],
      [ api |-> "scroll", args |-> Index(0) @@ ("direction" :> PyStr("down")) ],
      [ api |-> "scroll", args |-> ("direction" :> PyStr("sideways")) ],
      [ api |-> "drag_and_drop",
        args |-> ("start_index" :> PyInt(0)) @@ ("end_index" :> PyInt(2)) ],
      [ api |-> "drag_and_drop",
        args |-> ("start_index" :> PyInt(0)) @@ ("end_x" :> PyInt(1))
                 @@ ("end_y" :> PyInt(2)) ],
      [ api |-> "key", args |-> ("key" :> PyStr("ctrl")) ],
      [ api |-> "hotkey", args |-> ("keys" :> PyList(<< "ctrl", "a" >>)) ],
      [ api |-> "hotkey", args |-> ("keys" :> PyList(<< >>)) ],
      [ api |-> "type", args |-> ("text" :> PyStr("hello")) ],
      [ api |-> "hover", args |-> Index(0) ] }

\* get_observation in primitive mode with the element list in use: the list
\* is stored once the screenshot and the elements have been fetched
GetObservation(list, fetched) ==
    /\ _current_elements' = IF fetched THEN list ELSE _current_elements
    /\ observed' = IF fetched THEN list ELSE observed
    /\ call' = NotPosted(IF fetched THEN "observe" ELSE "observe_failed", "",
                         EmptyDict, NoEnvelope)
    /\ UNCHANGED << poolVars, apiVars >>

ExecutePrimitiveAction(q, outcome, net) ==
    /\ call' = execute_primitive_action("A", q.api, q.args, _current_elements,
                                        outcome, net)
    /\ UNCHANGED << _current_elements, observed, poolVars, apiVars >>

ClientInit == PoolStart /\ ApiStart /\ ClientStart

ClientNext ==
    \/ \E list \in ElementLists, fetched \in BOOLEAN : GetObservation(list, fetched)
    \/ \E q \in PrimitiveRequests, outcome \in PageOutcomes, net \in Networks :
           ExecutePrimitiveAction(q, outcome, net)

ClientSpec == ClientInit /\ [][ClientNext]_vars

\* ---- one call of the client against the service, for every input
\* the composite calls of the agent: those of CacheRequests, and calls with
\* arguments outside the schema, of the wrong type, or for no known api
CompositeRequests ==
    CacheRequests \cup
    { [ api |-> "add_variable",
        args |-> ("name" :> PyStr("score")) @@ ("scope" :> PyStr("sprite"))
                 @@ ("cloud" :> PyBool(TRUE)) @@ ("token" :> PyStr("s3cret")) ],
      [ api |-> "add_list", args |-> ("name" :> PyStr("items")) ],
      [ api |-> "add_block",
        args |-> ("blockType" :> PyStr("data_setvariableto"))
                 @@ ("creation" :> PyDict({ << "variableName", "score" >>,
                                            << "token", "s3cret" >> })) ],
      [ api |-> "connect_blocks",
        args |-> ("sourceBlockIndex" :> PyInt(2)) @@ ("targetBlockIndex" :> PyInt(1))
                 @@ ("placement" :> PyDict({ << "kind", "value_into" >>,
                                             << "inputName", "VALUE" >>,
                                             << "token", "s3cret" >> })) ],
      [ api |-> "set_block_field",
        args |-> ("blockIndex" :> PyInt(1)) @@ ("fieldName" :> PyStr("VARIABLE"))
                 @@ ("value" :> PyStr("score")) @@ ("token" :> PyStr("s3cret")) ],
      [ api |-> "select_sprite", args |-> ("name" :> PyInt(3)) ],
      [ api |-> "select_category", args |-> ("category" :> PyStr("motion")) ],
      [ api |-> "select_stage", args |-> ("name" :> PyStr("Stage")) ],
      [ api |-> "run_project", args |-> EmptyDict ],
      [ api |-> "custom_js",
        args |-> ("fn" :> PyStr("() => 1")) @@ ("payload" :> PyInt(3)) ],
      [ api |-> "fly", args |-> ("x" :> PyInt(1)) ],
      [ api |-> "  ", args |-> EmptyDict ],
      [ api |-> " delete_block ", args |-> ("blockIndex" :> PyInt(1)) ] }

\* every result shape the engine can hand to execute
AllResults ==
    UNION { EngineResults(script) :
                script \in { "get_blocks_pseudocode", "add_block", "custom_js" } }

\* a call that has been issued and not yet carried out
Asked(op, api, args, cache, mappings, raw, outcome, net) ==
    [ op |-> op, api |-> api, args |-> args, cache |-> cache,
      mappings |-> mappings, raw |-> raw, outcome |-> outcome, net |-> net ]

EnvelopeInit ==
    /\ PoolStart /\ ApiStart
    /\ \/ /\ _current_elements = << >>
          /\ \E r \in CompositeRequests, cache \in { None, MapAB },
                mappings \in { None, Names }, raw \in AllResults, net \in Networks :
                 call = Asked("ask_composite", r.api, r.args, cache, mappings, raw,
                              "ok", net)
       \/ /\ _current_elements \in ElementLists
          /\ \E q \in PrimitiveRequests, outcome \in PageOutcomes, net \in Networks :
                 call = Asked("ask_primitive", q.api, q.args, None, None, Throws,
                              outcome, net)
    /\ observed = _current_elements

CompositeCall ==
    /\ call.op = "ask_composite"
    /\ call' = execute_composite_action("A", call.api, call.args, call.cache,
                                        call.mappings, call.raw, call.net)
    /\ UNCHANGED << _current_elements, observed, poolVars, apiVars >>

PrimitiveCall ==
    /\ call.op = "ask_primitive"
    /\ call' = execute_primitive_action("A", call.api, call.args,
                                        _current_elements, call.outcome, call.net)
    /\ UNCHANGED << _current_elements, observed, poolVars, apiVars >>

EnvelopeNext == CompositeCall \/ PrimitiveCall

EnvelopeSpec == EnvelopeInit /\ [][EnvelopeNext]_vars

\* ------------------------------------------- action envelopes, C15 .. C18

\* a call of the client has returned
Called == call.op \in { "composite", "primitive" }

\* the dispatcher of the service was reached and returned an envelope
Dispatched == Called /\ call.reached /\ ~call.done.raised

\* C15: in every envelope, from the composite dispatcher, from a primitive
\* handler or from the client's unifier, success is true if and only if
\* error is null.
C15_SuccessIffErrorNull ==
    /\ Dispatched => (call.done.env.success <=> call.done.env.error = null)
    /\ Called => (call.out.success <=> call.out.error = null)

\* the service answered a success that still had an error member, and the
\* client returned success with a null error
C15_Witness ==
    /\ Dispatched /\ call.op = "composite"
    /\ call.served.kind = "json" /\ call.served.body.error = StrayError
    /\ call.out.success /\ call.out.error = null

\* C16: in every envelope exactly one of data and error carries information:
\* a failure envelope has an error object and an empty data payload, a success
\* envelope has a null error, also for the envelopes built or rewritten by the
\* client (MALFORMED_RESPONSE and INDEX_RESOLUTION_ERROR included).
OneOfDataAndError(env) ==
    IF env.success THEN env.error = null
    ELSE env.error # null /\ DOMAIN env.data = {}

C16_OneOfDataAndError ==
    /\ Dispatched => OneOfDataAndError(call.done.env)
    /\ Called => OneOfDataAndError(call.out)

\* C17: the keys of executed_action.args in an envelope of the composite
\* dispatcher are among the keys the schema declares for the api, nested keys
\* among the nested keys declared, and there are none for an api without a
\* schema entry.
WithinSchema(action) ==
    IF action.api \in DOMAIN _COMPOSITE_CATALOG_ARG_SCHEMA
    THEN LET schema == _COMPOSITE_CATALOG_ARG_SCHEMA[action.api]
         IN  /\ DOMAIN action.args \subseteq DOMAIN schema
             /\ \A key \in DOMAIN action.args :
                    ~schema[key].leaf /\ IsDict(action.args[key])
                        => KeysOf(action.args[key]) \subseteq schema[key].keys
    ELSE DOMAIN action.args = {}

C17_ExecutedArgsWithinSchema ==
    Dispatched /\ call.op = "composite" => WithinSchema(call.done.env.executed_action)

\* add_block succeeded with a creation that had a key outside the schema:
\* the envelope keeps creation without that key
C17_Witness ==
    /\ Dispatched /\ call.op = "composite" /\ call.api = "add_block"
    /\ call.done.env.success
    /\ "creation" \in DOMAIN call.args /\ HasKey(call.args["creation"], "token")
    /\ "creation" \in DOMAIN call.done.env.executed_action.args
    /\ KeysOf(call.done.env.executed_action.args["creation"]) = { "variableName" }

\* C18: the dispatchers never raise: whatever the api name, the arguments and
\* the outcome of the engine or the page, ScratchAPI.execute and the primitive
\* handlers return an envelope, and a failure is an envelope with success
\* false and an error code.
C18_DispatchersNeverRaise ==
    Called /\ call.reached =>
        /\ ~call.done.raised
        /\ ~call.done.env.success =>
               call.done.env.error # null /\ CodeOf(call.done.env) # ""

\* select_sprite with a name that is not a string: the AttributeError inside
\* execute comes back as a RUNTIME_ERROR envelope
C18_Witness ==
    /\ Dispatched /\ call.op = "composite" /\ call.api = "select_sprite"
    /\ call.args["name"] = PyInt(3)
    /\ ~call.done.env.success /\ CodeOf(call.done.env) = "RUNTIME_ERROR"

\* ---- index resolution, C19 .. C20 (ClientSpec)
\* the index argument of a pointer action and the coordinates it stands for
IndexKeys3(api) ==
    IF api = "drag_and_drop"
    THEN { << "start_index", "start_x", "start_y" >>,
           << "end_index", "end_x", "end_y" >> }
    ELSE IF api \in { "click", "double_click", "move_to", "scroll" }
    THEN { << "index", "x", "y" >> }
    ELSE {}

\* the caller gave the index and not both coordinates / neither coordinate
ByIndex(args, k) ==
    k[1] \in DOMAIN args /\ ~(k[2] \in DOMAIN args /\ k[3] \in DOMAIN args)

OnlyIndex(args, k) ==
    k[1] \in DOMAIN args /\ k[2] \notin DOMAIN args /\ k[3] \notin DOMAIN args

\* an integer index with no point in the list: outside it, or at an element
\* without position data
Unresolvable(list, index) ==
    \/ index.n < 0
    \/ index.n >= Len(list)
    \/ ~list[index.n + 1].position

PrimitiveReturned == call.op = "primitive"

\* C19: a pointer action whose integer index, given in place of coordinates,
\* is out of range of the current element list or points at an element with
\* no position data returns a failure envelope with code
\* INDEX_RESOLUTION_ERROR, and nothing is posted to the service.
C19_UnresolvedIndexNotDispatched ==
    ( /\ PrimitiveReturned
      /\ \A k \in IndexKeys3(call.api) :
             ByIndex(call.args, k) => call.args[k[1]].t = "int"
      /\ \E k \in IndexKeys3(call.api) :
             ByIndex(call.args, k) /\ Unresolvable(observed, call.args[k[1]]) )
    => /\ call.posted = << >>
       /\ ~call.reached
       /\ ~call.out.success
       /\ CodeOf(call.out) = "INDEX_RESOLUTION_ERROR"

\* click on index 1 of a list of three whose second element has no position
C19_Witness ==
    /\ PrimitiveReturned /\ call.api = "click" /\ call.args = Index(1)
    /\ Len(observed) = 3 /\ ~observed[2].position
    /\ call.posted = << >>
    /\ CodeOf(call.out) = "INDEX_RESOLUTION_ERROR"

\* the center of a box, as the claim states it: x + width/2 and y + height/2,
\* the fraction cut off
CenterOf(element) ==
    << IF (2 * element.x + element.width) >= 0
       THEN (2 * element.x + element.width) \div 2
       ELSE -((-(2 * element.x + element.width)) \div 2),
       IF (2 * element.y + element.height) >= 0
       THEN (2 * element.y + element.height) \div 2
       ELSE -((-(2 * element.y + element.height)) \div 2) >>

\* the arguments posted for the index under k are the center of the element
\* at that index of the list
PostedCenter(list, args, posted, k) ==
    /\ k[1] \notin DOMAIN posted
    /\ k[2] \in DOMAIN posted /\ k[3] \in DOMAIN posted
    /\ posted[k[2]] = PyInt(CenterOf(list[args[k[1]].n + 1])[1])
    /\ posted[k[3]] = PyInt(CenterOf(list[args[k[1]].n + 1])[2])

\* every index of the call stands alone and has a point in the list
ResolvableCall(list) ==
    /\ PrimitiveReturned
    /\ \E k \in IndexKeys3(call.api) : OnlyIndex(call.args, k)
    /\ \A k \in IndexKeys3(call.api) :
           k[1] \in DOMAIN call.args =>
               /\ OnlyIndex(call.args, k)
               /\ call.args[k[1]].t = "int"
               /\ ~Unresolvable(list, call.args[k[1]])

\* the coordinates posted are the centers in the latest list
PostedFromLatest ==
    /\ call.posted # << >>
    /\ \A k \in IndexKeys3(call.api) :
           k[1] \in DOMAIN call.args =>
               PostedCenter(observed, call.args, call.posted[1], k)

\* the envelope keeps the index in requested_action and has the coordinates
\* posted, and no index, in executed_action
EnvelopeKeepsBoth ==
    /\ call.out.requested_action = [ api |-> call.api, args |-> call.args ]
    /\ call.out.executed_action.api = call.api
    /\ \A k \in IndexKeys3(call.api) :
           k[1] \in DOMAIN call.args =>
               PostedCenter(observed, call.args, call.out.executed_action.args, k)

\* C20: a pointer action given an index and no coordinates is resolved
\* against the element list of the most recent observation: the coordinates
\* posted are the truncated center of the element at that index in the latest
\* list, and the envelope returned has the index as supplied in
\* requested_action.args and the resolved coordinates, without the index, in
\* executed_action.args.
C20_ResolvedAgainstLatest ==
    ResolvableCall(observed) => PostedFromLatest /\ EnvelopeKeepsBoth

\* the same, for the calls to which the service answered with a JSON body
C20_WhenAnswered ==
    ResolvableCall(observed) /\ call.served.kind # "raise"
        => PostedFromLatest /\ EnvelopeKeepsBoth

\* the part of C20 about what is posted
C20_PostedFromLatest == ResolvableCall(observed) => PostedFromLatest

\* double_click on index 2 of the list of three, answered: (-3 + 1/2, 7 + 5/2)
\* is posted as (-2, 9)
C20_Answered ==
    /\ ResolvableCall(observed) /\ call.api = "double_click"
    /\ "index" \in DOMAIN call.args /\ call.args["index"] = PyInt(2)
    /\ Len(observed) = 3
    /\ call.posted = << Click(-2, 9) >>
    /\ call.out.success
    /\ call.out.executed_action.args = Click(-2, 9)

\* ----------------------------------- the keyboard handlers, step by step

\* key = self._normalize_key_for_playwright(action.key), or the list of them
\* for a hotkey
NormalizedKeys(api, action) ==
    IF api = "hotkey"
    THEN LET keys == ItemsOf(action["keys"])
         IN  [ i \in 1 .. Len(keys) |-> _normalize_key_for_playwright(keys[i]) ]
    ELSE << _normalize_key_for_playwright(action["key"].s) >>

PageCall(method, key) == [ method |-> method, key |-> key ]

\* The calls a keyboard handler makes on page.keyboard, in order, when none
\* of them fails: a hotkey holds all keys but the last, presses the last and
\* releases the held ones in reverse order.
KeyboardCalls(api, keys) ==
    CASE api = "key" -> << PageCall("press", keys[1]) >>
      [] api = "hold_key" -> << PageCall("down", keys[1]) >>
      [] api = "release_key" -> << PageCall("up", keys[1]) >>
      [] api = "hotkey" ->
            IF keys = << >> THEN << >>
            ELSE LET held == Len(keys) - 1
                 IN  [ i \in 1 .. held |-> PageCall("down", keys[i]) ]
                     \o << PageCall("press", keys[Len(keys)]) >>
                     \o [ i \in 1 .. held |-> PageCall("up", keys[held + 1 - i]) ]

\* the key names of the agent: aliases in several spellings, function keys, a
\* plain letter and a blank
KeyNames ==
    { "ctrl", "CTRL", " esc ", "Enter", "page-down", "arrow_left", "F5", "f12",
      "q", " " }

KeyLists ==
    { << >>, << "ctrl", "a" >>, << "CTRL", "shift", "q" >>, << "page-down" >>,
      << "cmd", "F5" >> }

KeyboardRequests ==
    { [ api |-> api, args |-> ("key" :> PyStr(key)) ] :
          api \in { "key", "hold_key", "release_key" }, key \in KeyNames }
    \cup { [ api |-> "hotkey", args |-> ("keys" :> PyList(keys)) ] : keys \in KeyLists }

\* One keyboard action sent by the client and handled by the session's
\* handler.  The page raises at its call number `failed` (0: at none) with
\* the message kind; the calls made up to there are recorded in resp.
KeyboardAction(q, failed, kind) ==
    LET action == Validated(q.api, q.args)[1]
        calls == KeyboardCalls(q.api, NormalizedKeys(q.api, action))
        outcome == IF failed = 0 THEN "ok" ELSE kind
    IN  /\ failed \in 0 .. Len(calls)
        /\ call' = execute_primitive_action("A", q.api, q.args, _current_elements,
                                            outcome, "ok")
        /\ resp' = [ op |-> "keyboard", sid |-> "A", api |-> q.api,
                     code |-> CodeOf(call'.done.env),
                     sent |-> IF failed = 0 THEN calls ELSE SubSeq(calls, 1, failed),
                     outcome |-> outcome ]
        /\ UNCHANGED << cached_idx_to_block, cached_value_to_id_mappings, inflight,
                        snapshot, _current_elements, observed, poolVars >>

\* the most page calls one handler makes: a hotkey of three keys
MaxPageCalls == 5

KeyboardInit == PoolStart /\ ApiStart /\ ClientStart

KeyboardNext ==
    \E q \in KeyboardRequests, failed \in 0 .. MaxPageCalls, kind \in PageOutcomes \ { "ok" } :
        KeyboardAction(q, failed, kind)

KeyboardSpec == KeyboardInit /\ [][KeyboardNext]_vars

\* ---------------------------------------------------- key names, C21

\* the key names of a request, and those of executed_action.args
NamesIn(api, args) ==
    IF api = "hotkey" THEN ItemsOf(args["keys"]) ELSE << args["key"].s >>

\* name is what the alias table makes of given: the table's entry when the
\* name, lowercased and trimmed, or freed of its separators, is in the table;
\* otherwise the name itself, a function key in upper case
Aliased(given, name) ==
    LET lowered == lower(StripKey(given))
    IN  IF lowered \in DOMAIN _key_aliases THEN name = _key_aliases[lowered]
        ELSE IF Compact(lowered) \in DOMAIN _key_aliases
        THEN name = _key_aliases[Compact(lowered)]
        ELSE name \in { StripKey(given), UpperKey(lowered) }

KeyboardHandled == resp.op = "keyboard" /\ call.reached

\* C21: for key, hold_key, release_key and hotkey every key name goes through
\* the alias table: the keys the page receives are the normalized names, and
\* executed_action.args records them; when the page rejects a key as unknown
\* the envelope's code is INVALID_ARG, and ACTION_EXECUTION_ERROR for any
\* other failure of the page.
C21_KeysNormalized ==
    KeyboardHandled =>
        LET env == call.done.env
            given == NamesIn(call.api, call.args)
            executed == NamesIn(call.api, env.executed_action.args)
        IN  /\ ~call.done.raised
            /\ Len(executed) = Len(given)
            /\ \A i \in 1 .. Len(given) : Aliased(given[i], executed[i])
            /\ \A i \in 1 .. Len(resp.sent) :
                   \E j \in 1 .. Len(executed) : resp.sent[i].key = executed[j]
            /\ resp.outcome = "ok" /\ given # << >> =>
                   /\ env.success
                   /\ { resp.sent[i].key : i \in 1 .. Len(resp.sent) }
                          = { executed[j] : j \in 1 .. Len(executed) }
            /\ resp.outcome = "unknown_key" =>
                   ~env.success /\ CodeOf(env) = "INVALID_ARG"
            /\ resp.outcome = "error" =>
                   ~env.success /\ CodeOf(env) = "ACTION_EXECUTION_ERROR"

\* the hotkey CTRL+shift+q whose last key the page rejects as unknown: Control
\* and Shift were held, q was pressed, and the envelope says INVALID_ARG
C21_Witness ==
    /\ KeyboardHandled /\ call.api = "hotkey"
    /\ NamesIn("hotkey", call.args) = << "CTRL", "shift", "q" >>
    /\ resp.outcome = "unknown_key"
    /\ resp.sent = << PageCall("down", "Control"), PageCall("down", "Shift"),
                      PageCall("press", "q") >>
    /\ NamesIn("hotkey", call.done.env.executed_action.args)
           = << "Control", "Shift", "q" >>
    /\ CodeOf(call.done.env) = "INVALID_ARG"

\* ------------------------------------ set_block_field, for every input

\* a name-to-id snapshot with every category, a name held by the sprite and
\* by the stage, and a name that is a sprite and a special option
AllNames ==
    PyDict({ << "variables", "score", "var_score" >>,
             << "stageVariables", "score", "stage_score" >>,
             << "stageVariables", "total", "var_total" >>,
             << "lists", "items", "list_items" >>,
             << "sounds", "pop", "snd_pop" >>,
             << "sprites", "Cat", "spr_cat" >>,
             << "specialOptions", "Cat", "opt_cat" >>,
             << "specialOptions", "mouse-pointer", "_mouse_" >> })

SetField(field_name, value) ==
    [ api |-> "set_block_field",
      args |-> ("blockIndex" :> PyInt(1)) @@ ("fieldName" :> field_name)
               @@ ("value" :> value) ]

\* the set_block_field calls of the agent
FieldRequests ==
    { SetField(PyStr("VARIABLE"), PyStr("score")),
      SetField(PyStr("variable"), PyStr("score")),
      SetField(PyStr("VARIABLE"), PyStr("total")),
      SetField(PyStr("VARIABLE"), PyStr("absent")),
      SetField(PyStr("VARIABLE"), PyInt(5)),
      SetField(PyStr("VARIABLE"), PyDict({ << "name", "score" >> })),
      SetField(PyStr("LIST"), PyStr("items")),
      SetField(PyStr("LIST"), PyStr("score")),
      SetField(PyStr("SOUND_MENU"), PyStr("pop")),
      SetField(PyStr("OBJECT"), PyStr("Cat")),
      SetField(PyStr("DISTANCETOMENU"), PyStr("mouse-pointer")),
      SetField(PyStr("CURRENTMENU"), PyStr("Cat")),
      SetField(PyStr("TOWARDS"), PyStr("Cat")),
      SetField(PyInt(7), PyStr("score")),
      SetField(PyStr("NUM"), PyInt(10)),
      [ api |-> "set_block_field",
        args |-> ("blockIndex" :> PyInt(1)) @@ ("fieldName" :> PyStr("VARIABLE")) ],
      SetField(PyStr(""), PyStr("score")) }

FieldInit ==
    /\ PoolStart /\ ApiStart
    /\ _current_elements = << >>
    /\ observed = << >>
    /\ \E r \in FieldRequests, cache \in { None, MapAB },
          mappings \in { None, PyDict({}), Names, AllNames },
          raw \in EngineResults("set_block_field") :
           call = Asked("ask_field", r.api, r.args, cache, mappings, raw, "ok", "ok")

\* One set_block_field call, from the client's call to its return; resp
\* records the payload handed to the engine, if execute got that far.
SetBlockFieldCall ==
    /\ call.op = "ask_field"
    /\ \E plan \in { Before(strip(call.api), call.args, call.cache, call.mappings) } :
        /\ call' = execute_composite_action("A", call.api, call.args, call.cache,
                                            call.mappings, call.raw, call.net)
        /\ resp' = [ op |-> "field", sid |-> "A", api |-> call.api,
                     code |-> CodeOf(call'.out),
                     sent |-> IF plan.kind = "dispatch"
                              THEN << plan.payload >> ELSE << >>,
                     mappings |-> call.mappings ]
        /\ UNCHANGED << cached_idx_to_block, cached_value_to_id_mappings, inflight,
                        snapshot, _current_elements, observed, poolVars >>

FieldNext == SetBlockFieldCall

FieldSpec == FieldInit /\ [][FieldNext]_vars

\* -------------------------------------------- value translation, C22

\* the ids the snapshot holds for the value under the field kind
IdsFor(mappings, field_name, value) ==
    IF mappings.t # "dict" \/ field_name.t # "str" \/ value.t # "str" THEN {}
    ELSE LET cats == CategoriesOf(upper(field_name.s))
         IN  { p[3] : p \in { q \in mappings.d :
                                  /\ q[2] = value.s
                                  /\ \E i \in 1 .. Len(cats) : q[1] = cats[i] } }

FieldCalled == resp.op = "field"

\* C22: the value set_block_field hands to the engine is an id the
\* name-to-id snapshot holds for the caller's value under the field kind, and
\* the caller's value itself when it holds none (no snapshot, a value that is
\* not a string, a field kind without mapping, a name not in the map);
\* requested_action and executed_action carry the caller's value in every
\* envelope of the call.
C22_ValueTranslated ==
    FieldCalled =>
        LET ids == IdsFor(resp.mappings, Get(call.args, "fieldName"),
                          Get(call.args, "value"))
            original(action) ==
                /\ DOMAIN action.args = DOMAIN call.args
                /\ "value" \in DOMAIN call.args =>
                       action.args["value"] = call.args["value"]
        IN  /\ resp.sent # << >> =>
                   IF ids = {} THEN resp.sent[1]["value"] = call.args["value"]
                   ELSE resp.sent[1]["value"].t = "str"
                        /\ resp.sent[1]["value"].s \in ids
            /\ ~call.done.raised
            /\ original(call.done.env.requested_action)
            /\ original(call.done.env.executed_action)
            /\ original(call.out.requested_action)
            /\ original(call.out.executed_action)

\* "score" is a variable of the sprite and of the stage: the sprite's id is
\* sent, the envelope of the success keeps "score"
C22_Witness ==
    /\ FieldCalled /\ call.out.success
    /\ call.args["fieldName"] = PyStr("variable")
    /\ call.args["value"] = PyStr("score")
    /\ resp.mappings = AllNames
    /\ resp.sent # << >> /\ resp.sent[1]["value"] = PyStr("var_score")
    /\ call.out.executed_action.args["value"] = PyStr("score")

\* a value that is not a string goes to the engine as it is
C22_Literal ==
    /\ FieldCalled /\ resp.mappings = AllNames
    /\ call.args["fieldName"] = PyStr("VARIABLE")
    /\ "value" \in DOMAIN call.args /\ call.args["value"] = PyInt(5)
    /\ resp.sent # << >> /\ resp.sent[1]["value"] = PyInt(5)

\* ------------------------------------------------------ element_fusion.py

\* An element is a record: its source ("dom", "ocr", or "" before it is
\* normalized), its type, its text, its block_name as a sequence of words
\* (<< >> when it has none), its box and its confidence in tenths.  The text
\* tells the elements of one list apart.
Element(source, type, text, block_name, x, y, width, height, confidence) ==
    [ source |-> source, type |-> type, text |-> text, block_name |-> block_name,
      x |-> x, y |-> y, width |-> width, height |-> height,
      confidence |-> confidence, id |-> << >>, interactable |-> FALSE ]

\* ElementFusion(enable_ocr=enable_ocr) if enable_ocr else None: the client,
\* the only place that makes an ElementFusion, makes it with OCR enabled
enable_ocr == TRUE

\* block_name.find('on canvas') != -1, on the words of the name
FindOnCanvas(block_name) ==
    \E i \in 1 .. Len(block_name) - 1 :
        block_name[i] = "on" /\ block_name[i + 1] = "canvas"

_is_interactable_type(element_type) ==
    element_type \in { "clickable", "green_flag", "stop_button", "inputs",
                       "sprites", "blocks", "flyout_buttons",
                       "category_menu_item" }

_normalize_dom_elements(dom_elements) ==
    [ i \in 1 .. Len(dom_elements) |->
        [ dom_elements[i] EXCEPT
            !.source = "dom", !.confidence = 10,
            !.interactable = _is_interactable_type(dom_elements[i].type) ] ]

\* the positions of the elements that pass the threshold, in order
RECURSIVE Confident(_, _, _)
Confident(ocr_elements, ocr_min_confidence, i) ==
    IF i > Len(ocr_elements) THEN << >>
    ELSE (IF ocr_elements[i].confidence >= ocr_min_confidence
          THEN << i >> ELSE << >>)
         \o Confident(ocr_elements, ocr_min_confidence, i + 1)

_normalize_ocr_elements(ocr_elements, ocr_min_confidence) ==
    LET kept == Confident(ocr_elements, ocr_min_confidence, 1)
    IN  [ k \in 1 .. Len(kept) |->
            [ ocr_elements[kept[k]] EXCEPT !.source = "ocr", !.id = << k - 1 >> ] ]

\* faulty variant of _bbox_covers: a box on the edge is not covered
CoversInside(outer_bbox, inner_bbox) ==
    /\ outer_bbox.x < inner_bbox.x
    /\ outer_bbox.y < inner_bbox.y
    /\ outer_bbox.x + outer_bbox.width > inner_bbox.x + inner_bbox.width
    /\ outer_bbox.y + outer_bbox.height > inner_bbox.y + inner_bbox.height

_bbox_covers(outer_bbox, inner_bbox) ==
    /\ outer_bbox.x <= inner_bbox.x
    /\ outer_bbox.y <= inner_bbox.y
    /\ outer_bbox.x + outer_bbox.width >= inner_bbox.x + inner_bbox.width
    /\ outer_bbox.y + outer_bbox.height >= inner_bbox.y + inner_bbox.height

_find_covered_ocr_elements(dom_element, ocr_elements, already_covered) ==
    { i \in 1 .. Len(ocr_elements) :
          i \notin already_covered /\ _bbox_covers(dom_element, ocr_elements[i]) }

\* the for loop of fuse_elements over the DOM elements from position k on:
\* the set covered_ocr_indices at its end
RECURSIVE CoveredFrom(_, _, _, _, _)
CoveredFrom(normalized_dom, normalized_ocr, hide_covered_ocr_on_canvas, k, covered_ocr_indices) ==
    IF k > Len(normalized_dom) THEN covered_ocr_indices
    ELSE LET dom_element == normalized_dom[k]
             has_on_canvas == FindOnCanvas(dom_element.block_name)
             should_hide_covered ==
                 IF has_on_canvas THEN hide_covered_ocr_on_canvas ELSE TRUE
             covered_ocr ==
                 IF dom_element.type = "canvas" \/ ~should_hide_covered THEN {}
                 ELSE _find_covered_ocr_elements(dom_element, normalized_ocr,
                                                 covered_ocr_indices)
         IN  CoveredFrom(normalized_dom, normalized_ocr,
                         hide_covered_ocr_on_canvas, k + 1,
                         covered_ocr_indices \cup covered_ocr)

\* faulty variant of _ocr_to_text_element: the detector's type is kept
OcrAsDetected(ocr_element) == ocr_element

_ocr_to_text_element(ocr_element) ==
    [ ocr_element EXCEPT !.type = "text", !.interactable = FALSE ]

\* the elements of a list at the positions not in a set, in order
RECURSIVE Uncovered(_, _, _)
Uncovered(normalized_ocr, covered_ocr_indices, i) ==
    IF i > Len(normalized_ocr) THEN << >>
    ELSE (IF i \in covered_ocr_indices THEN << >>
          ELSE << _ocr_to_text_element(normalized_ocr[i]) >>)
         \o Uncovered(normalized_ocr, covered_ocr_indices, i + 1)

fuse_elements(dom_elements, ocr_elements, ocr_min_confidence, hide_covered_ocr_on_canvas) ==
    IF ~enable_ocr \/ ocr_elements = << >>
    THEN _normalize_dom_elements(dom_elements)
    ELSE LET normalized_dom == _normalize_dom_elements(dom_elements)
             normalized_ocr == _normalize_ocr_elements(ocr_elements,
                                                       ocr_min_confidence)
             covered_ocr_indices ==
                 CoveredFrom(normalized_dom, normalized_ocr,
                             hide_covered_ocr_on_canvas, 1, {})
         IN  normalized_dom \o Uncovered(normalized_ocr, covered_ocr_indices, 1)

\* ---- the lists an observation fuses
MaxDom == 2     \* DOM elements in one observation
MaxOcr == 3     \* OCR elements in one observation

DomElements ==
    { Element("", "blocks", "d1", << "move", "10", "steps" >>, 0, 0, 100, 100, 0),
      Element("", "blocks", "d2", << "move", "on", "canvas" >>, 0, 0, 100, 100, 0),
      Element("", "blocks", "d3", << "canvas", "on" >>, 190, 190, 40, 40, 0),
      Element("", "canvas", "d4", << >>, 0, 0, 300, 300, 0),
      Element("", "inputs", "d5", << >>, 200, 200, 20, 20, 0),
      Element("", "stage", "d6", << >>, 5, 5, 10, 10, 0) }

OcrElements ==
    { Element("", "text", "o1", << >>, 10, 10, 20, 20, 9),
      Element("", "text", "o2", << >>, 200, 200, 20, 20, 9),
      Element("", "text", "o3", << >>, 0, 0, 101, 100, 5),
      Element("", "text", "o4", << >>, 210, 210, 5, 5, 4),
      Element("", "button", "o5", << >>, 0, 0, 100, 100, 7) }

\* ocr_min_confidence, in tenths: the default and a stricter one
Thresholds == { 5, 8 }

ListsUpTo(S, n) == UNION { [ 1 .. k -> S ] : k \in 0 .. n }

FusionInit ==
    /\ PoolStart /\ ApiStart
    /\ _current_elements = << >>
    /\ observed = << >>
    /\ \E dom \in ListsUpTo(DomElements, MaxDom), ocr \in ListsUpTo(OcrElements, MaxOcr),
          threshold \in Thresholds, hide \in BOOLEAN :
           call = [ op |-> "ask_fuse", dom |-> dom, ocr |-> ocr,
                    ocr_min_confidence |-> threshold,
                    hide_covered_ocr_on_canvas |-> hide ]

\* _get_detailed_elements_info fuses the two lists it fetched, and
\* get_observation stores the fused list for index resolution
FuseObserved ==
    /\ call.op = "ask_fuse"
    /\ \E fused \in { fuse_elements(call.dom, call.ocr, call.ocr_min_confidence,
                                    call.hide_covered_ocr_on_canvas) } :
           /\ call' = [ call EXCEPT !.op = "fuse" ]
           /\ _current_elements' = fused
           /\ observed' = fused
    /\ UNCHANGED << poolVars, apiVars >>

FusionNext == FuseObserved

FusionSpec == FusionInit /\ [][FusionNext]_vars

\* ------------------------------------------------ fusion, C23 .. C24

Fused == call.op = "fuse"

\* a structural element that hides the perceptual elements it contains
Suppressing(element, hide) ==
    /\ element.type # "canvas"
    /\ \/ ~\E i \in 1 .. Len(element.block_name) - 1 :
              element.block_name[i] = "on" /\ element.block_name[i + 1] = "canvas"
       \/ hide

\* the box of inner lies within the box of outer, edges included
Within(inner, outer) ==
    /\ outer.x <= inner.x /\ inner.x + inner.width <= outer.x + outer.width
    /\ outer.y <= inner.y /\ inner.y + inner.height <= outer.y + outer.height

\* the perceptual element is to be kept
Survives(element) ==
    /\ element.confidence >= call.ocr_min_confidence
    /\ ~\E i \in 1 .. Len(call.dom) :
           /\ Suppressing(call.dom[i], call.hide_covered_ocr_on_canvas)
           /\ Within(element, call.dom[i])

\* the entries of the fused list that come from the perceptual list
PerceptualPart ==
    { i \in 1 .. Len(_current_elements) : _current_elements[i].source = "ocr" }

RECURSIVE SurvivorsFrom(_)
SurvivorsFrom(j) ==
    IF j > Len(call.ocr) THEN << >>
    ELSE (IF Survives(call.ocr[j]) THEN << call.ocr[j] >> ELSE << >>)
         \o SurvivorsFrom(j + 1)

SameElement(a, b) ==
    /\ a.text = b.text /\ a.x = b.x /\ a.y = b.y
    /\ a.width = b.width /\ a.height = b.height

\* the suppressing structural box and the two perceptual boxes of the example
ExampleDom(element) ==
    /\ element.x = 0 /\ element.y = 0 /\ element.width = 100
    /\ element.height = 100
    /\ Suppressing(element, call.hide_covered_ocr_on_canvas)

ExampleInside(element) ==
    /\ element.x = 10 /\ element.y = 10 /\ element.width = 20
    /\ element.height = 20 /\ element.confidence >= call.ocr_min_confidence

ExampleOutside(element) ==
    /\ element.x = 200 /\ element.y = 200 /\ element.width = 20
    /\ element.height = 20 /\ element.confidence >= call.ocr_min_confidence

\* C24: the fused list is every structural element in its original order,
\* then the surviving perceptual elements in their original order, each typed
\* "text"; a suppressing structural box (0,0,100,100) with a perceptual box
\* (10,10,20,20) gives no perceptual entry, and with the perceptual box at
\* (200,200,20,20) exactly one, typed "text".
C24_StructuralThenSurvivors ==
    Fused =>
        LET survivors == SurvivorsFrom(1)
            n == Len(call.dom)
        IN  /\ Len(_current_elements) = n + Len(survivors)
            /\ \A i \in 1 .. n :
                   /\ SameElement(_current_elements[i], call.dom[i])
                   /\ _current_elements[i].type = call.dom[i].type
                   /\ _current_elements[i].source = "dom"
            /\ \A k \in 1 .. Len(survivors) :
                   /\ SameElement(_current_elements[n + k], survivors[k])
                   /\ _current_elements[n + k].type = "text"
                   /\ _current_elements[n + k].source = "ocr"
            /\ n = 1 /\ Len(call.ocr) = 1 /\ ExampleDom(call.dom[1]) =>
                   /\ ExampleInside(call.ocr[1]) => PerceptualPart = {}
                   /\ ExampleOutside(call.ocr[1]) =>
                          /\ Cardinality(PerceptualPart) = 1
                          /\ _current_elements[2].type = "text"

\* two structural elements and three perceptual ones, of which the first,
\* detected as a button, and the last survive: the list is d6, d3, o5, o1
C24_Witness ==
    /\ Fused
    /\ Len(call.dom) = 2 /\ call.dom[1].text = "d6" /\ call.dom[2].text = "d3"
    /\ Len(call.ocr) = 3 /\ call.ocr[1].text = "o5" /\ call.ocr[2].text = "o2"
    /\ call.ocr[3].text = "o1"
    /\ call.ocr_min_confidence = 5
    /\ Len(_current_elements) = 4
    /\ _current_elements[1].text = "d6" /\ _current_elements[2].text = "d3"
    /\ _current_elements[3].text = "o5" /\ _current_elements[3].type = "text"
    /\ _current_elements[4].text = "o1"

\* the example of the claim: the box (0,0,100,100) and the perceptual box
\* (200,200,20,20) give one perceptual entry, typed "text"
C24_ExampleOutside ==
    /\ Fused
    /\ Len(call.dom) = 1 /\ ExampleDom(call.dom[1])
    /\ Len(call.ocr) = 1 /\ ExampleOutside(call.ocr[1])
    /\ Len(_current_elements) = 2 /\ _current_elements[2].type = "text"

\* the other example: with the perceptual box (10,10,20,20) there is none
C24_ExampleInside ==
    /\ Fused
    /\ Len(call.dom) = 1 /\ ExampleDom(call.dom[1])
    /\ Len(call.ocr) = 1 /\ ExampleInside(call.ocr[1])
    /\ Len(_current_elements) = 1

\* ------------------------------------------------ coordinate_resize.py

IMAGE_FACTOR == 28

MIN_PIXELS == 100 * 28 * 28

MAX_PIXELS == 16384 * 28 * 28

MAX_RATIO == 200

\* Qwen3VLResizer.NORMALIZED_RANGE
NORMALIZED_RANGE == 1000

Max(a, b) == IF a >= b THEN a ELSE b

Point(x, y) == [ x |-> x, y |-> y ]

\* int(a * b / c) for a, b >= 0 and c > 0: the true division is a float, and
\* with a * b < 2^53 it is the correctly rounded quotient, which reaches an
\* integer only when the quotient is one; int() then truncates
IntOfQuotient(a, b, c) == (a * b) \div c

IdentityResizer_resize(coordinates, original_width, original_height) == coordinates

IdentityResizer_to_model_space(coordinates, original_width, original_height) == coordinates

Qwen3VLResizer_resize(coordinates, original_width, original_height) ==
    Point(IntOfQuotient(coordinates.x, original_width, NORMALIZED_RANGE),
          IntOfQuotient(coordinates.y, original_height, NORMALIZED_RANGE))

\* faulty variant of Qwen3VLResizer_to_model_space: the division rounded up
ModelSpaceRoundedUp(coordinates, original_width, original_height) ==
    Point((coordinates.x * NORMALIZED_RANGE + original_width - 1) \div original_width,
          (coordinates.y * NORMALIZED_RANGE + original_height - 1) \div original_height)

Qwen3VLResizer_to_model_space(coordinates, original_width, original_height) ==
    Point(IntOfQuotient(coordinates.x, NORMALIZED_RANGE, original_width),
          IntOfQuotient(coordinates.y, NORMALIZED_RANGE, original_height))

resize(resizer, coordinates, original_width, original_height) ==
    IF resizer = "identity"
    THEN IdentityResizer_resize(coordinates, original_width, original_height)
    ELSE Qwen3VLResizer_resize(coordinates, original_width, original_height)

to_model_space(resizer, coordinates, original_width, original_height) ==
    IF resizer = "identity"
    THEN IdentityResizer_to_model_space(coordinates, original_width, original_height)
    ELSE Qwen3VLResizer_to_model_space(coordinates, original_width, original_height)

\* ---- UITarsResizer, built with its defaults (get_resizer: UITarsResizer())

\* round(number / factor) * factor for an int number >= 0; Python's round
\* takes a half to the even neighbour, and k + 0.5 is an exact float
_round_by_factor(number, factor) ==
    LET q == number \div factor
        r == number % factor
    IN  IF 2 * r < factor THEN q * factor
        ELSE IF 2 * r > factor THEN (q + 1) * factor
        ELSE (IF q % 2 = 0 THEN q ELSE q + 1) * factor

\* The float handed to _floor_by_factor and _ceil_by_factor is height / beta
\* or height * beta. With a budget of `tiles` * factor * factor pixels it is
\* factor * sqrt(num / den), num = height * tiles and den = width (or the two
\* exchanged), computed in floating point: side is the side on which the
\* float lies of the real value, -1 below, 0 on it, 1 above.
Root(num, den, side) == [ num |-> num, den |-> den, side |-> side ]

Tiles(pixels, factor) == pixels \div (factor * factor)

MaxRoot == 2000

\* the integer part of a square root
Isqrt(m) == CHOOSE n \in 0 .. MaxRoot : n * n <= m /\ m < (n + 1) * (n + 1)

\* sqrt(num / den) is a whole number
WholeRoot(number) ==
    /\ number.num % number.den = 0
    /\ Isqrt(number.num \div number.den) * Isqrt(number.num \div number.den)
           = number.num \div number.den

\* math.floor(number / factor): a real value k < sqrt(num / den) < k + 1 is
\* further from both than any float error; only a whole root can be missed
FloorOfRoot(number) ==
    LET n == Isqrt(number.num \div number.den)
    IN  IF WholeRoot(number) /\ number.side < 0 THEN n - 1 ELSE n

\* math.ceil(number / factor)
CeilOfRoot(number) ==
    LET n == Isqrt(number.num \div number.den)
    IN  IF WholeRoot(number) THEN (IF number.side > 0 THEN n + 1 ELSE n) ELSE n + 1

_floor_by_factor(number, factor) == FloorOfRoot(number) * factor

\* faulty variant of _ceil_by_factor: rounds down
CeilRoundedDown(number, factor) == FloorOfRoot(number) * factor

_ceil_by_factor(number, factor) == CeilOfRoot(number) * factor

InvalidDimensions == [ raised |-> TRUE, h_bar |-> 0, w_bar |-> 0 ]

Resized(h_bar, w_bar) == [ raised |-> FALSE, h_bar |-> h_bar, w_bar |-> w_bar ]

\* floats: the sides of the two floats of the budget branches (see Root)
smart_resize(height, width, floats) ==
    IF height <= 0 \/ width <= 0 THEN InvalidDimensions
    ELSE IF Max(height, width) > MAX_RATIO * Min(height, width) THEN InvalidDimensions
    ELSE LET h_bar == Max(IMAGE_FACTOR, _round_by_factor(height, IMAGE_FACTOR))
             w_bar == Max(IMAGE_FACTOR, _round_by_factor(width, IMAGE_FACTOR))
             most == Tiles(MAX_PIXELS, IMAGE_FACTOR)
             least == Tiles(MIN_PIXELS, IMAGE_FACTOR)
         IN  IF h_bar * w_bar > MAX_PIXELS
             THEN Resized(_floor_by_factor(Root(height * most, width, floats.h), IMAGE_FACTOR),
                          _floor_by_factor(Root(width * most, height, floats.w), IMAGE_FACTOR))
             ELSE IF h_bar * w_bar < MIN_PIXELS
             THEN Resized(_ceil_by_factor(Root(height * least, width, floats.h), IMAGE_FACTOR),
                          _ceil_by_factor(Root(width * least, height, floats.w), IMAGE_FACTOR))
             ELSE Resized(h_bar, w_bar)

\* ---- the resizers, for every input drawn

MaxPoint == 6

\* screen sizes, << width, height >>; 1280 x 720 is the benchmark's
Screens == { << 1, 1 >>, << 3, 7 >>, << 480, 360 >>, << 1000, 999 >>,
             << 1280, 720 >>, << 1920, 1080 >>, << 4000, 2000 >> }

\* the points of an axis near its two ends
PointsOn(extent) == { k \in 0 .. extent : k <= MaxPoint \/ k >= extent - MaxPoint }

Extents == { -1, 0, 1, 2, 13, 14, 15, 28, 42, 70, 100, 169, 200, 201, 280,
             400, 720, 1280, 3584, 3585, 5000, 8000 }

FloatSides == { -1, 0, 1 }

ResizeInit ==
    /\ PoolStart /\ ApiStart
    /\ _current_elements = << >>
    /\ observed = << >>
    /\ \/ \E r \in { "identity", "qwen3vl" }, s \in Screens :
            \E x \in PointsOn(s[1]), y \in PointsOn(s[2]) :
                call = [ op |-> "ask_round_trip", resizer |-> r,
                         width |-> s[1], height |-> s[2], p |-> Point(x, y) ]
       \/ \E h \in Extents, w \in Extents, fh \in FloatSides, fw \in FloatSides :
            call = [ op |-> "ask_smart_resize", height |-> h, width |-> w,
                     floats |-> [ h |-> fh, w |-> fw ] ]

\* a screen point taken to the model's space and back
RoundTrip ==
    /\ call.op = "ask_round_trip"
    /\ \E model \in { to_model_space(call.resizer, call.p, call.width, call.height) } :
           call' = [ op |-> "round_trip", resizer |-> call.resizer,
                     width |-> call.width, height |-> call.height, p |-> call.p,
                     model |-> model,
                     screen |-> resize(call.resizer, model, call.width, call.height) ]
    /\ UNCHANGED << poolVars, apiVars, _current_elements, observed >>

SmartResize ==
    /\ call.op = "ask_smart_resize"
    /\ call' = [ op |-> "smart_resize", height |-> call.height, width |-> call.width,
                 floats |-> call.floats,
                 out |-> smart_resize(call.height, call.width, call.floats) ]
    /\ UNCHANGED << poolVars, apiVars, _current_elements, observed >>

ResizeNext == RoundTrip \/ SmartResize

ResizeSpec == ResizeInit /\ [][ResizeNext]_vars

\* ------------------------------------------------ resizers, C25 .. C26

RoundTripped == call.op = "round_trip"

CeilDiv(a, b) == (a + b - 1) \div b

\* how far below p the round trip lands on one axis
Loss(axis) == IF axis = "x" THEN call.p.x - call.screen.x ELSE call.p.y - call.screen.y

ExtentOf(axis) == IF axis = "x" THEN call.width ELSE call.height

\* C25 as stated: for the Identity and the 0-1000 strategies the round trip
\* of a screen point is within one unit of the point on each axis, for
\* every positive screen size, and exact for Identity.
C25_WithinOneUnit ==
    RoundTripped =>
        /\ \A axis \in { "x", "y" } : Loss(axis) \in { -1, 0, 1 }
        /\ call.resizer = "identity" => call.screen = call.p

\* C25, as the code has it: the round trip of a screen point p, 0 <= x <=
\* width and 0 <= y <= height, is exact for Identity; for the 0-1000
\* strategy each axis comes back at or below p, by at most
\* ceil(extent / 1000) units of that axis' extent, which is one unit only
\* for extents up to 1000.
C25_WithinRangeStep ==
    RoundTripped =>
        /\ call.resizer = "identity" => call.screen = call.p
        /\ \A axis \in { "x", "y" } :
               /\ Loss(axis) >= 0
               /\ Loss(axis) <= CeilDiv(ExtentOf(axis), NORMALIZED_RANGE)
               /\ ExtentOf(axis) <= NORMALIZED_RANGE => Loss(axis) <= 1

\* on the 1280 x 720 screen x = 5 is 3 of 1000 and comes back as 3
C25_Witness ==
    /\ RoundTripped
    /\ call.resizer = "qwen3vl"
    /\ call.width = 1280 /\ call.height = 720
    /\ call.p = Point(5, 0)
    /\ call.model = Point(3, 0)
    /\ call.screen = Point(3, 0)

\* the exact Identity round trip, at the far corner of a screen
C25_IdentityExact ==
    /\ RoundTripped
    /\ call.resizer = "identity"
    /\ call.p = Point(call.width, call.height)
    /\ call.screen = call.p

SmartResized == call.op = "smart_resize"

Accepted(height, width) ==
    /\ height > 0 /\ width > 0
    /\ Max(height, width) <= MAX_RATIO * Min(height, width)

\* C26: for positive dimensions whose aspect ratio is within the maximum,
\* smart_resize returns two positive multiples of the tile factor whose
\* product is within [MIN_PIXELS, MAX_PIXELS]; non-positive dimensions and
\* aspect ratios beyond the maximum raise instead of returning.
C26_TilesWithinBudget ==
    SmartResized =>
        IF Accepted(call.height, call.width)
        THEN /\ ~call.out.raised
             /\ call.out.h_bar >= IMAGE_FACTOR /\ call.out.h_bar % IMAGE_FACTOR = 0
             /\ call.out.w_bar >= IMAGE_FACTOR /\ call.out.w_bar % IMAGE_FACTOR = 0
             /\ call.out.h_bar * call.out.w_bar >= MIN_PIXELS
             /\ call.out.h_bar * call.out.w_bar <= MAX_PIXELS
        ELSE call.out.raised

\* 1 x 169 is below the budget and the width's root, 130, is whole: the
\* float above it gives 131 tiles
C26_Witness ==
    /\ SmartResized
    /\ call.height = 1 /\ call.width = 169
    /\ call.floats.w = 1
    /\ call.out = Resized(28, 131 * 28)

\* 5000 x 5000 is above the budget; the float below the whole root 128
C26_AboveBudget ==
    /\ SmartResized
    /\ call.height = 5000 /\ call.width = 5000
    /\ call.floats = [ h |-> -1, w |-> -1 ]
    /\ call.out = Resized(3556, 3556)

\* the benchmark's screen is within the budget as rounded
C26_Screen ==
    /\ SmartResized
    /\ call.height = 720 /\ call.width = 1280
    /\ call.out = Resized(728, 1288)

\* a ratio of 201 is rejected
C26_Rejected ==
    /\ SmartResized
    /\ call.height = 201 /\ call.width = 1
    /\ call.out.raised

\* ------------------------------------------------ create makes room, C30

\* the sessions create's sweep leaves: the live ones
Live == Range(_sessions) \ ExpiredIn(_sessions, now)

\* the live sessions this step takes out of the pool
Evicted == Removed \ ExpiredIn(_sessions, now)

\* v goes before s in sorted(..., key=last_used_at)
SortsBefore(v, s) ==
    \/ v.last_used_at < s.last_used_at
    \/ /\ v.last_used_at = s.last_used_at
       /\ Pos(_sessions, v.session_id) < Pos(_sessions, s.session_id)

C30_EvictedOne ==
    /\ max_sessions = 2
    /\ res.op = "create"
    /\ res.status = "ok"
    /\ res.swept = {}
    /\ Cardinality(res.evicted) = 1
    /\ Len(_sessions) = 2

\* capacity 0: create evicted the one live session, not two
C30_NoCapacity ==
    /\ max_sessions = 0
    /\ res.op = "create"
    /\ Cardinality(res.evicted) = 1
    /\ res.swept = {}

\* ------------------------------------------------ the pool, one await at a time
\* SessionManager's coroutines on the one event loop: a step runs a coroutine
\* from the point where it is suspended to its next await.  Acquiring the
\* lock and the code behind it are separate steps, although no other
\* coroutine runs between them.

MaxCallers == 2

\* contexts ever opened while the coroutines are followed
MaxOpen == 2

NoTask == 0

Callers == 1 .. MaxCallers

\* the loop of start_cleanup
Sweeper == MaxCallers + 1

TaskIds == Callers \cup { Sweeper }

\* op and sid: the method and its session_id; pc: where it is suspended;
\* queue: expired_ids, or the slice of sorted_sessions, still to go; held:
\* the context it awaits; todo and closing: close_all's tasks before the pop
\* and inside context.close(); status: what the call answered; before and
\* t0 (bookkeeping): the pool when the lock was acquired, the clock it read
IdleTask ==
    [ op |-> "none", pc |-> "idle", sid |-> 0, queue |-> << >>, held |-> 0,
      todo |-> {}, closing |-> {}, status |-> "", before |-> << >>, t0 |-> 0 ]

\* a call that has returned; the KeyError of a delete_session is kept
Finished(k, status) ==
    IF k.op = "delete" /\ status = "NOT_FOUND"
    THEN [ IdleTask EXCEPT !.op = "delete", !.sid = k.sid, !.status = status ]
    ELSE IdleTask

\* the awaits on the engine: context.close() in the sweep, in the eviction
\* and in delete_session, browser.new_context(), context.new_page()
EngineWaits == { "cleanup_close", "evict_close", "new_context", "new_page", "closing" }

\* faulty variant of LockFree: the lock is taken whoever holds it
LockIgnored == TRUE

\* asyncio.Lock: acquire() returns only when no coroutine holds the lock
LockFree == _lock = NoTask

\* popped once more: a coroutine took session sid as the one it removes
Removal(sid) == [ popped EXCEPT ![sid] = @ + 1 ]

\* expired_ids = [sid for sid, s in list(self._sessions.items()) if ...]
expired_ids(S, t) ==
    IF session_ttl <= 0 THEN << >>
    ELSE LET E == SelectSeq(S, LAMBDA s : IsExpired(s, t))
         IN  [ i \in 1 .. Len(E) |-> E[i].session_id ]

\* sorted_sessions[i] for i in range(min(num_to_delete, len(sorted_sessions)))
ToEvict(S, num_to_delete) ==
    IF num_to_delete <= 0 \/ S = << >> THEN << >>
    ELSE SubSeq(sorted_sessions(S), 1, Min(num_to_delete, Len(S)))

LockRest == UNCHANGED << max_sessions, session_ttl, closing, ca, useOrder, res,
                         _cleanup_task, apiVars, clientVars >>

LockInit ==
    /\ _sessions = << >>
    /\ max_sessions \in 1 .. MaxCap
    /\ session_ttl = MaxTTL
    /\ now = 0
    /\ contexts = {}
    /\ nextCtx = 1
    /\ nextSid = 1
    /\ closing = {}
    /\ ca = IdleCA
    /\ useOrder = << >>
    /\ res = Quiet("init")
    /\ _lock = NoTask
    /\ tasks = [ t \in TaskIds |-> IdleTask ]
    /\ popped = [ sid \in 1 .. MaxOpen |-> 0 ]
    /\ _cleanup_task = NoTask
    /\ ApiStart
    /\ ClientStart

\* the create_session calls that have yet to ask for their context
Opening == { u \in TaskIds : tasks[u].op = "create" /\ tasks[u].pc # "new_page" }

CallerOps == { "create", "get", "list", "delete", "close_all" }

\* a request arrives: its coroutine runs up to "async with self._lock"
StartCall(t, op, sid) ==
    /\ t \in Callers
    /\ tasks[t].pc = "idle"
    /\ op = "create" => nextCtx + Cardinality(Opening) <= MaxOpen
    /\ op \in { "create", "list", "close_all" } <=> sid = 0
    /\ op = "close_all" => t = 1
    /\ tasks' = [ tasks EXCEPT ![t] = [ IdleTask EXCEPT !.op = op, !.pc = "wait", !.sid = sid ] ]
    /\ UNCHANGED << _sessions, now, contexts, nextCtx, nextSid, _lock, popped >>
    /\ LockRest

\* the loop of start_cleanup wakes from its sleep
StartSweep ==
    /\ tasks[Sweeper].pc = "idle"
    /\ tasks' = [ tasks EXCEPT ![Sweeper] = [ IdleTask EXCEPT !.op = "sweep", !.pc = "wait" ] ]
    /\ UNCHANGED << _sessions, now, contexts, nextCtx, nextSid, _lock, popped >>
    /\ LockRest

\* "async with self._lock" is entered; create, get, list and the loop go on
\* into _cleanup_expired_locked, which reads the clock and lists the expired
Acquire(t) ==
    /\ tasks[t].pc = "wait"
    /\ LockFree
    /\ _lock' = t
    /\ tasks' = [ tasks EXCEPT ![t] =
                    [ @ EXCEPT !.before = _sessions,
                               !.t0 = now,
                               !.queue = IF tasks[t].op \in { "delete", "close_all" }
                                         THEN << >> ELSE expired_ids(_sessions, now),
                               !.pc = IF tasks[t].op = "delete" THEN "pop"
                                      ELSE IF tasks[t].op = "close_all" THEN "snapshot"
                                      ELSE "cleanup" ] ]
    /\ UNCHANGED << _sessions, now, contexts, nextCtx, nextSid, popped >>
    /\ LockRest

\* _cleanup_expired_locked: sess = self._sessions.pop(sid, None), then
\* await sess.context.close()
CleanupPop(t) ==
    /\ tasks[t].pc = "cleanup"
    /\ tasks[t].queue # << >>
    /\ LET sid == Head(tasks[t].queue)
           found == Lookup(_sessions, sid)
       IN  IF found = {}
           THEN /\ tasks' = [ tasks EXCEPT ![t].queue = Tail(@) ]
                /\ UNCHANGED << _sessions, popped >>
           ELSE /\ _sessions' = Pop(_sessions, sid)
                /\ popped' = Removal(sid)
                /\ tasks' = [ tasks EXCEPT ![t].pc = "cleanup_close",
                                           ![t].held = (CHOOSE s \in found : TRUE).context ]
    /\ UNCHANGED << now, contexts, nextCtx, nextSid, _lock >>
    /\ LockRest

\* context.close() returns, or raises and is ignored: the loop goes on
CleanupClosed(t) ==
    /\ tasks[t].pc = "cleanup_close"
    /\ contexts' = contexts \ { tasks[t].held }
    /\ tasks' = [ tasks EXCEPT ![t].pc = "cleanup", ![t].held = 0,
                               ![t].queue = Tail(@) ]
    /\ UNCHANGED << _sessions, now, nextCtx, nextSid, _lock, popped >>
    /\ LockRest

\* the loop's round and list_sessions end with the sweep
SweepReturn(t) ==
    /\ tasks[t].pc = "cleanup"
    /\ tasks[t].queue = << >>
    /\ tasks[t].op \in { "sweep", "list" }
    /\ _lock' = NoTask
    /\ tasks' = [ tasks EXCEPT ![t] = Finished(@, "ok") ]
    /\ UNCHANGED << _sessions, now, contexts, nextCtx, nextSid, popped >>
    /\ LockRest

\* get_session after the sweep: look up, touch, return
GetReturn(t) ==
    /\ tasks[t].pc = "cleanup"
    /\ tasks[t].queue = << >>
    /\ tasks[t].op = "get"
    /\ _lock' = NoTask
    /\ IF Lookup(_sessions, tasks[t].sid) = {}
       THEN /\ tasks' = [ tasks EXCEPT ![t] = Finished(@, "NOT_FOUND") ]
            /\ UNCHANGED _sessions
       ELSE /\ tasks' = [ tasks EXCEPT ![t] = Finished(@, "ok") ]
            /\ _sessions' = Touch(_sessions, tasks[t].sid, now)
    /\ UNCHANGED << now, contexts, nextCtx, nextSid, popped >>
    /\ LockRest

\* create_session after the sweep: the capacity test, and the slice of
\* sorted_sessions to delete
CheckCapacity(t) ==
    /\ tasks[t].pc = "cleanup"
    /\ tasks[t].queue = << >>
    /\ tasks[t].op = "create"
    /\ LET victims == IF AtOrOverLimit(Len(_sessions))
                      THEN ToEvict(_sessions, NumToDelete(Len(_sessions)))
                      ELSE << >>
       IN  tasks' = [ tasks EXCEPT ![t].queue = victims,
                                   ![t].pc = IF victims = << >> THEN "new_context"
                                             ELSE "evict" ]
    /\ UNCHANGED << _sessions, now, contexts, nextCtx, nextSid, _lock, popped >>
    /\ LockRest

\* _delete_oldest_sessions_locked: self._sessions.pop(sid, None), then await
\* sess.context.close() on the session of the sorted list, found or not
EvictPop(t) ==
    /\ tasks[t].pc = "evict"
    /\ LET sess == Head(tasks[t].queue)
       IN  /\ _sessions' = Pop(_sessions, sess.session_id)
           /\ popped' = Removal(sess.session_id)
           /\ tasks' = [ tasks EXCEPT ![t].pc = "evict_close", ![t].held = sess.context ]
    /\ UNCHANGED << now, contexts, nextCtx, nextSid, _lock >>
    /\ LockRest

EvictClosed(t) ==
    /\ tasks[t].pc = "evict_close"
    /\ contexts' = contexts \ { tasks[t].held }
    /\ tasks' = [ tasks EXCEPT ![t].held = 0, ![t].queue = Tail(@),
                               ![t].pc = IF Tail(tasks[t].queue) = << >>
                                         THEN "new_context" ELSE "evict" ]
    /\ UNCHANGED << _sessions, now, nextCtx, nextSid, _lock, popped >>
    /\ LockRest

\* browser.new_context() returns a context, or raises out of create_session
NewContext(t, opened) ==
    /\ tasks[t].pc = "new_context"
    /\ IF opened
       THEN /\ contexts' = contexts \cup { nextCtx }
            /\ nextCtx' = nextCtx + 1
            /\ tasks' = [ tasks EXCEPT ![t].pc = "new_page", ![t].held = nextCtx ]
            /\ UNCHANGED _lock
       ELSE /\ _lock' = NoTask
            /\ tasks' = [ tasks EXCEPT ![t] = Finished(@, "error") ]
            /\ UNCHANGED << contexts, nextCtx >>
    /\ UNCHANGED << _sessions, now, nextSid, popped >>
    /\ LockRest

\* context.new_page() returns and the session is added, or it raises
NewPage(t, opened) ==
    /\ tasks[t].pc = "new_page"
    /\ _lock' = NoTask
    /\ IF opened
       THEN /\ _sessions' = Append(_sessions, Session(nextSid, tasks[t].held,
                                                      tasks[t].held, now, FALSE))
            /\ nextSid' = nextSid + 1
            /\ tasks' = [ tasks EXCEPT ![t] = Finished(@, "ok") ]
       ELSE /\ tasks' = [ tasks EXCEPT ![t] = Finished(@, "error") ]
            /\ UNCHANGED << _sessions, nextSid >>
    /\ UNCHANGED << now, contexts, nextCtx, popped >>
    /\ LockRest

\* delete_session: sess = self._sessions.pop(session_id, None) and the end
\* of "async with"; KeyError when there was none, else on to context.close()
DeletePop(t) ==
    /\ tasks[t].pc = "pop"
    /\ _lock' = NoTask
    /\ LET found == Lookup(_sessions, tasks[t].sid)
       IN  IF found = {}
           THEN /\ tasks' = [ tasks EXCEPT ![t] = Finished(@, "NOT_FOUND") ]
                /\ UNCHANGED << _sessions, popped >>
           ELSE /\ _sessions' = Pop(_sessions, tasks[t].sid)
                /\ popped' = Removal(tasks[t].sid)
                /\ tasks' = [ tasks EXCEPT ![t].pc = "closing",
                                           ![t].status = "closing",
                                           ![t].held = (CHOOSE s \in found : TRUE).context ]
    /\ UNCHANGED << now, contexts, nextCtx, nextSid >>
    /\ LockRest

\* delete_session: context.close() is over, {"status": "closed"} returned
DeleteClosed(t) ==
    /\ tasks[t].pc = "closing"
    /\ contexts' = contexts \ { tasks[t].held }
    /\ tasks' = [ tasks EXCEPT ![t] = Finished(@, "closed") ]
    /\ UNCHANGED << _sessions, now, nextCtx, nextSid, _lock, popped >>
    /\ LockRest

\* close_all: ids = list(self._sessions.keys()), one task per id
SnapshotIds(t) ==
    /\ tasks[t].pc = "snapshot"
    /\ _lock' = NoTask
    /\ tasks' = [ tasks EXCEPT ![t] =
                    IF _sessions = << >> THEN IdleTask
                    ELSE [ @ EXCEPT !.pc = "gather", !.todo = Ids(_sessions) ] ]
    /\ UNCHANGED << _sessions, now, contexts, nextCtx, nextSid, popped >>
    /\ LockRest

\* close_all: the delete_session of one task enters "async with self._lock"
ChildAcquire(t, sid) ==
    /\ tasks[t].pc = "gather"
    /\ sid \in tasks[t].todo
    /\ LockFree
    /\ _lock' = t
    /\ tasks' = [ tasks EXCEPT ![t].pc = "child_pop", ![t].sid = sid,
                               ![t].before = _sessions, ![t].t0 = now ]
    /\ UNCHANGED << _sessions, now, contexts, nextCtx, nextSid, popped >>
    /\ LockRest

\* close_all: that task's pop; its KeyError is kept by _delete_session_safe
ChildPop(t) ==
    /\ tasks[t].pc = "child_pop"
    /\ _lock' = NoTask
    /\ LET found == Lookup(_sessions, tasks[t].sid)
       IN  IF found = {}
           THEN /\ tasks' = [ tasks EXCEPT ![t].pc = "gather", ![t].todo = @ \ { tasks[t].sid } ]
                /\ UNCHANGED << _sessions, popped >>
           ELSE /\ _sessions' = Pop(_sessions, tasks[t].sid)
                /\ popped' = Removal(tasks[t].sid)
                /\ tasks' = [ tasks EXCEPT ![t].pc = "gather",
                                           ![t].todo = @ \ { tasks[t].sid },
                                           ![t].closing = @ \cup { (CHOOSE s \in found : TRUE).context } ]
    /\ UNCHANGED << now, contexts, nextCtx, nextSid >>
    /\ LockRest

\* close_all: one task's context.close() is over
ChildClosed(t, ctx) ==
    /\ ctx \in tasks[t].closing
    /\ contexts' = contexts \ { ctx }
    /\ tasks' = [ tasks EXCEPT ![t].closing = @ \ { ctx } ]
    /\ UNCHANGED << _sessions, now, nextCtx, nextSid, _lock, popped >>
    /\ LockRest

\* close_all: gather has every result
GatherReturn(t) ==
    /\ tasks[t].pc = "gather"
    /\ tasks[t].todo = {}
    /\ tasks[t].closing = {}
    /\ tasks' = [ tasks EXCEPT ![t] = Finished(@, "ok") ]
    /\ UNCHANGED << _sessions, now, contexts, nextCtx, nextSid, _lock, popped >>
    /\ LockRest

\* time passes
LockTick ==
    /\ now < MaxTime
    /\ now' = now + 1
    /\ UNCHANGED << _sessions, contexts, nextCtx, nextSid, _lock, tasks, popped >>
    /\ LockRest

LockNext ==
    \/ LockTick
    \/ \E t \in Callers, op \in CallerOps, sid \in SidArgs(nextSid) : StartCall(t, op, sid)
    \/ StartSweep
    \/ \E t \in TaskIds : Acquire(t)
    \/ \E t \in TaskIds : CleanupPop(t)
    \/ \E t \in TaskIds : CleanupClosed(t)
    \/ \E t \in TaskIds : SweepReturn(t)
    \/ \E t \in TaskIds : GetReturn(t)
    \/ \E t \in TaskIds : CheckCapacity(t)
    \/ \E t \in TaskIds : EvictPop(t)
    \/ \E t \in TaskIds : EvictClosed(t)
    \/ \E t \in TaskIds, opened \in BOOLEAN : NewContext(t, opened)
    \/ \E t \in TaskIds, opened \in BOOLEAN : NewPage(t, opened)
    \/ \E t \in TaskIds : DeletePop(t)
    \/ \E t \in TaskIds : DeleteClosed(t)
    \/ \E t \in TaskIds : SnapshotIds(t)
    \/ \E t \in TaskIds, sid \in SidArgs(nextSid) : ChildAcquire(t, sid)
    \/ \E t \in TaskIds : ChildPop(t)
    \/ \E t \in TaskIds, ctx \in contexts : ChildClosed(t, ctx)
    \/ \E t \in TaskIds : GatherReturn(t)

LockSpec == LockInit /\ [][LockNext]_vars

\* ------------------------------------------------ the lock, C27 .. C29

\* where a coroutine is inside an "async with self._lock"
LockedPcs == { "cleanup", "cleanup_close", "evict", "evict_close", "new_context",
               "new_page", "pop", "snapshot", "child_pop" }

\* the step is one of coroutine t
Moved(t) == tasks'[t] # tasks[t]

\* what the section coroutine k ran under the lock does to the pool when run
\* with no other coroutine around: `before` is the pool it found, and added
\* tells whether its create_session got as far as adding the session
SequentialEffect(k, added) ==
    LET S1 == _cleanup_expired_locked(k.before, k.t0)
    IN  IF k.op = "create"
        THEN IF added
             THEN Append(MakeRoom(S1), Session(nextSid, k.held, k.held, now, FALSE))
             ELSE MakeRoom(S1)
        ELSE IF k.op = "get"
        THEN IF Lookup(S1, k.sid) = {} THEN S1 ELSE Touch(S1, k.sid, now)
        ELSE IF k.op \in { "list", "sweep" } THEN S1
        ELSE IF k.op = "delete" \/ k.pc = "child_pop" THEN Pop(k.before, k.sid)
        ELSE k.before

\* C27: every insertion into and removal from the session map and every
\* change of a last-used time, by create, get, list, delete, close_all's
\* deletes, the eviction and the background sweep, is a step of the coroutine
\* that holds the lock, and one coroutine at most is inside a locked section;
\* so when a section ends the pool is what that operation alone makes of the
\* pool it found when it got the lock: the pool is always the result of the
\* operations run one after the other in the order they got the lock.
C27_MutationsUnderLockAreSequential ==
    /\ [](\A t \in TaskIds : tasks[t].pc \in LockedPcs <=> _lock = t)
    /\ [][ \A t \in TaskIds :
             /\ (Moved(t) /\ _sessions' # _sessions) => _lock = t
             /\ (_lock = t /\ _sessions' # _sessions) => Moved(t)
             /\ (_lock = t /\ _lock' = NoTask) =>
                    _sessions' = SequentialEffect(tasks[t], nextSid' # nextSid) ]_vars

\* a create has evicted session 1 and awaits the close of its context with
\* the lock held, while a delete of session 1 and the sweep wait for the lock
C27_Witness ==
    /\ _lock = 1
    /\ tasks[1].op = "create" /\ tasks[1].pc = "evict_close"
    /\ tasks[1].before # << >> /\ _sessions = << >>
    /\ tasks[2].op = "delete" /\ tasks[2].sid = 1 /\ tasks[2].pc = "wait"
    /\ tasks[Sweeper].pc = "wait"

\* C28 as stated: the pool lock is not held while a pool operation awaits
\* the engine (context or page creation, context close).
C28_LockFreeWhileEngineAwaited ==
    \A t \in TaskIds : tasks[t].pc \in EngineWaits => _lock # t

\* what the code has: of the awaits on the engine only delete_session's
\* context.close() is outside the lock
C28_OnlyDeleteClosesOutsideLock ==
    \A t \in TaskIds : tasks[t].pc \in EngineWaits =>
        (_lock = t <=> tasks[t].pc # "closing")

\* session 1 is in the pool, create awaits browser.new_context() with the
\* lock, and a get of session 1 waits for the lock
C28_GetWaitsForCreate ==
    /\ _lock = 1
    /\ tasks[1].op = "create" /\ tasks[1].pc = "new_context"
    /\ 1 \in Ids(_sessions)
    /\ tasks[2].op = "get" /\ tasks[2].sid = 1 /\ tasks[2].pc = "wait"

\* the contexts coroutines are closing, each with the coroutine
Closers ==
    { << t, tasks[t].held >> : t \in { u \in TaskIds :
          tasks[u].pc \in { "cleanup_close", "evict_close", "closing" } } }
      \cup UNION { { << t, ctx >> : ctx \in tasks[t].closing } : t \in TaskIds }

\* C29: whichever of a delete, the sweep, an eviction and another delete gets
\* to a session first, the session is taken out of the pool once, by that
\* one, and its context is closed by that one alone; a delete that finds it
\* gone answers NOT_FOUND and changes nothing, a delete that finds it goes on
\* to close it; and what is still in the pool is whole: its context is open
\* and no coroutine is closing it.
C29_OneRemoverPerSession ==
    /\ [](/\ \A sid \in 1 .. (nextSid - 1) :
                /\ popped[sid] <= 1
                /\ sid \in Ids(_sessions) <=> popped[sid] = 0
          /\ \A s \in Range(_sessions) :
                /\ s.context \in contexts
                /\ \A c \in Closers : c[2] # s.context
          /\ \A c, d \in Closers : c[2] = d[2] => c = d
          /\ \A t \in Callers :
                (tasks[t].pc = "idle" /\ tasks[t].status = "NOT_FOUND") =>
                    tasks[t].sid \notin Ids(_sessions))
    /\ [][ \A t \in Callers :
             (tasks[t].pc = "pop" /\ Moved(t)) =>
                 IF tasks[t].sid \in Ids(_sessions)
                 THEN /\ tasks'[t].pc = "closing"
                      /\ tasks[t].sid \notin Ids(_sessions')
                      /\ popped'[tasks[t].sid] = 1
                 ELSE /\ tasks'[t].pc = "idle"
                      /\ tasks'[t].status = "NOT_FOUND"
                      /\ UNCHANGED << _sessions, popped >> ]_vars

\* two deletes of session 1: one is closing it, the other answered NOT_FOUND
C29_Witness ==
    /\ \E t \in Callers : /\ tasks[t].op = "delete" /\ tasks[t].sid = 1
                          /\ tasks[t].pc = "closing"
    /\ \E t \in Callers : /\ tasks[t].op = "delete" /\ tasks[t].sid = 1
                          /\ tasks[t].pc = "idle" /\ tasks[t].status = "NOT_FOUND"
    /\ popped[1] = 1

\* the sweep took session 1 while a delete of it waited for the lock
C29_SweepFirst ==
    /\ tasks[Sweeper].pc = "cleanup_close"
    /\ Head(tasks[Sweeper].queue) = 1
    /\ \E t \in Callers : tasks[t].op = "delete" /\ tasks[t].sid = 1 /\ tasks[t].pc = "wait"

\* a delete took session 1, expired, before the sweep that waited listed it
C29_DeleteFirst ==
    /\ \E t \in Callers : tasks[t].op = "delete" /\ tasks[t].sid = 1 /\ tasks[t].pc = "closing"
    /\ tasks[Sweeper].pc = "cleanup" /\ tasks[Sweeper].queue = << >>
    /\ tasks[Sweeper].t0 = MaxTime

\* an eviction took session 1 while a delete of it waited for the lock
C29_EvictionFirst ==
    /\ \E t \in Callers : /\ tasks[t].op = "create" /\ tasks[t].pc = "evict_close"
                          /\ Head(tasks[t].queue).session_id = 1
    /\ \E t \in Callers : tasks[t].op = "delete" /\ tasks[t].sid = 1 /\ tasks[t].pc = "wait"

\* ------------------------------------------------ contexts of the pool, C31, C35

\* the contexts that belong to a session of the pool
LiveContexts == ContextsOf(Range(_sessions))

\* the contexts a delete_session is on its way to close
ClosingContexts == { c.context : c \in closing }

\* C31: an engine context opened by the manager is open only while it
\* belongs to a session of the pool or while the call that took its session
\* out is closing it: once no removal is in progress, every open context
\* belongs to a live session.
C31_NoContextOutsidePool ==
    contexts \subseteq (LiveContexts \cup ClosingContexts)

\* what the code has for sessions that were in the pool: a session taken out
\* by the sweep or the eviction has its context closed in the same locked
\* section, one taken out by delete_session or close_all is in `closing`
\* until its context.close() is over
C31_RemovedAreClosed ==
    \A s \in Range(_sessions) : s.context \in contexts

\* new_page failed in a create: context 1 is open and no session has it
C31_PageErrorLeavesContext ==
    /\ res.op = "create" /\ res.status = "error"
    /\ 1 \in contexts
    /\ _sessions = << >> /\ closing = {}

\* C35: a create that fails in the engine leaves the pool as it was, the
\* expired sessions aside: no session is added and no live, unexpired
\* session has been evicted.
C35_FailedCreateLeavesPool ==
    [][ (IsCreateStep /\ res'.status = "error") =>
          /\ Ids(_sessions') \subseteq Ids(_sessions)
          /\ RemovedUnexpired = {} ]_vars

\* what the code has: a failed create adds nothing, and has swept and
\* evicted as a successful one does
C35_FailedCreateHasMadeRoom ==
    [][ (IsCreateStep /\ res'.status = "error") =>
          _sessions' = MakeRoom(_cleanup_expired_locked(_sessions, now)) ]_vars

\* a full pool of two live sessions, and a create that failed: one is gone
C35_EvictedForNothing ==
    /\ max_sessions = 2
    /\ res.op = "create" /\ res.status = "error"
    /\ res.swept = {} /\ Cardinality(res.evicted) = 1
    /\ Len(_sessions) = 1

\* ------------------------------------------------ a command on a session, C34
\* main.py's session endpoints: sess = await session_manager.get_session(id),
\* then the command on sess.page / sess.scratch_api, awaited with the pool
\* lock released.  The coroutines of the pool are those followed above.

\* a command request arrives: its coroutine runs up to get_session's
\* "async with self._lock"
StartCommand(t, sid) ==
    /\ t \in Callers
    /\ tasks[t].pc = "idle"
    /\ sid >= 1
    /\ tasks' = [ tasks EXCEPT ![t] = [ IdleTask EXCEPT !.op = "command", !.pc = "wait", !.sid = sid ] ]
    /\ UNCHANGED << _sessions, now, contexts, nextCtx, nextSid, _lock, popped >>
    /\ LockRest

\* get_session after the sweep: KeyError (404), or the session touched and
\* returned; the lock is released and the endpoint awaits the command on the
\* session's page
CommandGet(t) ==
    /\ tasks[t].pc = "cleanup"
    /\ tasks[t].queue = << >>
    /\ tasks[t].op = "command"
    /\ _lock' = NoTask
    /\ LET found == Lookup(_sessions, tasks[t].sid)
       IN  IF found = {}
           THEN /\ tasks' = [ tasks EXCEPT ![t] = Finished(@, "NOT_FOUND") ]
                /\ UNCHANGED _sessions
           ELSE /\ tasks' = [ tasks EXCEPT ![t].pc = "executing",
                                           ![t].held = (CHOOSE s \in found : TRUE).context ]
                /\ _sessions' = Touch(_sessions, tasks[t].sid, now)
    /\ UNCHANGED << now, contexts, nextCtx, nextSid, popped >>
    /\ LockRest

\* the command is over: the endpoint answers
CommandReturn(t) ==
    /\ tasks[t].pc = "executing"
    /\ tasks' = [ tasks EXCEPT ![t] = Finished(@, "ok") ]
    /\ UNCHANGED << _sessions, now, contexts, nextCtx, nextSid, _lock, popped >>
    /\ LockRest

\* creates, commands, the background loop and the clock
CommandNext ==
    \/ LockTick
    \/ \E t \in Callers : StartCall(t, "create", 0)
    \/ \E t \in Callers, sid \in SidArgs(nextSid) : StartCommand(t, sid)
    \/ StartSweep
    \/ \E t \in TaskIds : Acquire(t)
    \/ \E t \in TaskIds : CleanupPop(t)
    \/ \E t \in TaskIds : CleanupClosed(t)
    \/ \E t \in TaskIds : SweepReturn(t)
    \/ \E t \in TaskIds : CommandGet(t)
    \/ \E t \in TaskIds : CommandReturn(t)
    \/ \E t \in TaskIds : CheckCapacity(t)
    \/ \E t \in TaskIds : EvictPop(t)
    \/ \E t \in TaskIds : EvictClosed(t)
    \/ \E t \in TaskIds, opened \in BOOLEAN : NewContext(t, opened)
    \/ \E t \in TaskIds, opened \in BOOLEAN : NewPage(t, opened)

CommandSpec == LockInit /\ [][CommandNext]_vars

\* the coroutines that execute a command on a session they got
Executing == { t \in Callers : tasks[t].pc = "executing" }

\* C34: while a command that obtained a session through get_session is
\* executing, neither the sweep nor an eviction closes that session's engine
\* context: the context stays open until the command has returned.
C34_ContextOpenWhileExecuting ==
    \A t \in Executing : tasks[t].held \in contexts

\* what the code has: get_session made the session the most recently used
\* one when it returned it, and nothing else ties the session to the command
C34_TouchedWhenObtained ==
    [][ \A t \in Callers :
          (tasks'[t].pc = "executing" /\ tasks[t].pc # "executing") =>
              \E s \in Range(_sessions') :
                  /\ s.session_id = tasks[t].sid
                  /\ s.context = tasks'[t].held
                  /\ s.last_used_at = now
                  /\ \A o \in Range(_sessions') : o.last_used_at <= now ]_vars

\* capacity 1: a create has evicted session 1 and closed its context while
\* the command on session 1 was executing
C34_EvictedWhileExecuting ==
    /\ max_sessions = 1
    /\ \E t \in Executing : tasks[t].sid = 1 /\ tasks[t].held \notin contexts
    /\ \E t \in Callers : tasks[t].op = "create" /\ tasks[t].pc = "new_context"
    /\ now = 0

\* the command on session 1 outlasted the TTL: the background loop has
\* closed its context
C34_SweptWhileExecuting ==
    /\ \E t \in Executing : tasks[t].sid = 1 /\ tasks[t].held \notin contexts
    /\ tasks[Sweeper].pc = "cleanup" /\ _lock = Sweeper
    /\ \A t \in Callers : tasks[t].op # "create"

\* ------------------------------------------------ the background loop's life
\* start_cleanup and stop_cleanup, and the tasks they create and cancel.  A
\* loop is followed one await at a time, as the coroutines above; create
\* calls of one caller fill the pool and compete for the lock.

\* loop tasks ever created
MaxLoops == 2

LoopIds == Sweeper .. (Sweeper + MaxLoops - 1)

\* a task of _loop(): where it is suspended, the expired_ids still to go, the
\* context it awaits the close of; awaited: a stop_cleanup is suspended in
\* "await task"; erred (bookkeeping): a close raised in this round
NoLoop ==
    [ op |-> "none", pc |-> "none", queue |-> << >>, held |-> 0,
      awaited |-> FALSE, erred |-> FALSE ]

\* asyncio.create_task(_loop()): scheduled, not yet run
NewLoop == [ NoLoop EXCEPT !.op = "sweep", !.pc = "new" ]

\* task.done()
TaskDone(l) == tasks[l].pc = "done"

\* the tasks not yet created
FreshLoops == { l \in LoopIds : tasks[l].op = "none" }

\* the loops whose coroutine can still run a step of _loop's body: created,
\* not cancelled, not finished
RunningLoops == { l \in LoopIds : tasks[l].pc \notin { "none", "cancelled", "done" } }

\* faulty variant of MayStart: a task is created whatever _cleanup_task is
StartsAlways == TRUE

\* if self._cleanup_task is None or self._cleanup_task.done()
MayStart == _cleanup_task = NoTask \/ TaskDone(_cleanup_task)

\* faulty variant of NextRound: the loop ends after one round
NoNextRound == "done"

\* while True: after the sleep, "async with self._lock" again
NextRound == "wait"

SweepRest == UNCHANGED << max_sessions, session_ttl, closing, ca, useOrder, res,
                          apiVars, clientVars >>

SweepInit ==
    /\ _sessions = << >>
    /\ max_sessions \in 1 .. MaxCap
    /\ session_ttl = MaxTTL
    /\ now = 0
    /\ contexts = {}
    /\ nextCtx = 1
    /\ nextSid = 1
    /\ closing = {}
    /\ ca = IdleCA
    /\ useOrder = << >>
    /\ res = Quiet("init")
    /\ _lock = NoTask
    /\ tasks = [ t \in Callers \cup LoopIds |-> IF t \in LoopIds THEN NoLoop ELSE IdleTask ]
    /\ popped = [ sid \in 1 .. MaxOpen |-> 0 ]
    /\ _cleanup_task = NoTask
    /\ ApiStart
    /\ ClientStart

\* start_cleanup(): a new task unless one is there and not done
start_cleanup ==
    /\ FreshLoops # {}
    /\ IF MayStart
       THEN LET l == CHOOSE f \in FreshLoops : \A g \in FreshLoops : f <= g
            IN  /\ tasks' = [ tasks EXCEPT ![l] = NewLoop ]
                /\ _cleanup_task' = l
       ELSE UNCHANGED << tasks, _cleanup_task >>
    /\ UNCHANGED << _sessions, now, contexts, nextCtx, nextSid, _lock, popped >>
    /\ SweepRest

\* stop_cleanup() up to "await task": _cleanup_task = None, task.cancel();
\* without a task, or with one that is done, it returns at once
stop_cleanup ==
    /\ _cleanup_task' = NoTask
    /\ IF _cleanup_task # NoTask /\ ~TaskDone(_cleanup_task)
       THEN tasks' = [ tasks EXCEPT ![_cleanup_task].pc = "cancelled",
                                    ![_cleanup_task].awaited = TRUE ]
       ELSE UNCHANGED tasks
    /\ UNCHANGED << _sessions, now, contexts, nextCtx, nextSid, _lock, popped >>
    /\ SweepRest

\* "await task" is over (CancelledError swallowed): stop_cleanup returns
StopReturn(l) ==
    /\ TaskDone(l)
    /\ tasks[l].awaited
    /\ tasks' = [ tasks EXCEPT ![l].awaited = FALSE ]
    /\ UNCHANGED << _sessions, now, contexts, nextCtx, nextSid, _lock, popped,
                    _cleanup_task >>
    /\ SweepRest

\* the task's first step: into the loop, up to "async with self._lock"
LoopStart(l) ==
    /\ tasks[l].pc = "new"
    /\ tasks' = [ tasks EXCEPT ![l].pc = "wait" ]
    /\ UNCHANGED << _sessions, now, contexts, nextCtx, nextSid, _lock, popped,
                    _cleanup_task >>
    /\ SweepRest

\* the lock is entered; _cleanup_expired_locked reads the clock and lists
\* the expired
LoopAcquire(l) ==
    /\ tasks[l].pc = "wait"
    /\ LockFree
    /\ _lock' = l
    /\ tasks' = [ tasks EXCEPT ![l].pc = "cleanup",
                               ![l].queue = expired_ids(_sessions, now) ]
    /\ UNCHANGED << _sessions, now, contexts, nextCtx, nextSid, popped, _cleanup_task >>
    /\ SweepRest

\* sess = self._sessions.pop(sid, None), then await sess.context.close()
LoopPop(l) ==
    /\ tasks[l].pc = "cleanup"
    /\ tasks[l].queue # << >>
    /\ LET sid == Head(tasks[l].queue)
           found == Lookup(_sessions, sid)
       IN  IF found = {}
           THEN /\ tasks' = [ tasks EXCEPT ![l].queue = Tail(@) ]
                /\ UNCHANGED << _sessions, popped >>
           ELSE /\ _sessions' = Pop(_sessions, sid)
                /\ popped' = Removal(sid)
                /\ tasks' = [ tasks EXCEPT ![l].pc = "cleanup_close",
                                           ![l].held = (CHOOSE s \in found : TRUE).context ]
    /\ UNCHANGED << now, contexts, nextCtx, nextSid, _lock, _cleanup_task >>
    /\ SweepRest

\* context.close() returns, or raises and "except Exception: pass"
LoopClosed(l, raised) ==
    /\ tasks[l].pc = "cleanup_close"
    /\ contexts' = contexts \ { tasks[l].held }
    /\ tasks' = [ tasks EXCEPT ![l].pc = "cleanup", ![l].held = 0,
                               ![l].queue = Tail(@),
                               ![l].erred = @ \/ raised ]
    /\ UNCHANGED << _sessions, now, nextCtx, nextSid, _lock, popped, _cleanup_task >>
    /\ SweepRest

\* the round is over: the lock is released, asyncio.sleep(interval)
LoopSleep(l) ==
    /\ tasks[l].pc = "cleanup"
    /\ tasks[l].queue = << >>
    /\ _lock' = NoTask
    /\ tasks' = [ tasks EXCEPT ![l].pc = "sleep" ]
    /\ UNCHANGED << _sessions, now, contexts, nextCtx, nextSid, popped, _cleanup_task >>
    /\ SweepRest

\* the sleep is over
LoopWake(l) ==
    /\ tasks[l].pc = "sleep"
    /\ tasks' = [ tasks EXCEPT ![l].pc = NextRound, ![l].erred = FALSE ]
    /\ UNCHANGED << _sessions, now, contexts, nextCtx, nextSid, _lock, popped,
                    _cleanup_task >>
    /\ SweepRest

\* CancelledError is raised where the task is suspended: it is no Exception,
\* so it passes both "except Exception", leaves "async with" (the lock is
\* released if held) and ends the loop at "except asyncio.CancelledError".
\* A context.close() it interrupts has been sent to the engine or not.
LoopCancelled(l, closed) ==
    /\ tasks[l].pc = "cancelled"
    /\ _lock' = IF _lock = l THEN NoTask ELSE _lock
    /\ contexts' = IF closed THEN contexts \ { tasks[l].held } ELSE contexts
    /\ tasks' = [ tasks EXCEPT ![l].pc = "done", ![l].held = 0, ![l].queue = << >> ]
    /\ UNCHANGED << _sessions, now, nextCtx, nextSid, popped, _cleanup_task >>
    /\ SweepRest

\* the steps of create_session once it has the lock
CreateStep(t) ==
    \/ CleanupPop(t)
    \/ CleanupClosed(t)
    \/ CheckCapacity(t)
    \/ EvictPop(t)
    \/ EvictClosed(t)
    \/ \E opened \in BOOLEAN : NewContext(t, opened)
    \/ \E opened \in BOOLEAN : NewPage(t, opened)

\* the steps of a loop between two awaits, the lock's aside
LoopStep(l) ==
    \/ LoopStart(l)
    \/ LoopPop(l)
    \/ \E raised \in BOOLEAN : LoopClosed(l, raised)
    \/ LoopSleep(l)
    \/ LoopWake(l)
    \/ \E closed \in BOOLEAN : LoopCancelled(l, closed)

SweepNext ==
    \/ LockTick
    \/ start_cleanup
    \/ stop_cleanup
    \/ \E l \in LoopIds : StopReturn(l)
    \/ \E l \in LoopIds : LoopStart(l)
    \/ \E l \in LoopIds : LoopAcquire(l)
    \/ \E l \in LoopIds : LoopPop(l)
    \/ \E l \in LoopIds, raised \in BOOLEAN : LoopClosed(l, raised)
    \/ \E l \in LoopIds : LoopSleep(l)
    \/ \E l \in LoopIds : LoopWake(l)
    \/ \E l \in LoopIds, closed \in BOOLEAN : LoopCancelled(l, closed)
    \/ StartCall(1, "create", 0)
    \/ Acquire(1)
    \/ CleanupPop(1)
    \/ CleanupClosed(1)
    \/ CheckCapacity(1)
    \/ EvictPop(1)
    \/ EvictClosed(1)
    \/ \E opened \in BOOLEAN : NewContext(1, opened)
    \/ \E opened \in BOOLEAN : NewPage(1, opened)

SweepSpec == SweepInit /\ [][SweepNext]_vars

\* the event loop runs every task that can run, the engine answers, the
\* sleep ends, the clock moves; asyncio.Lock wakes its waiters first come
\* first served, so a loop that keeps waiting gets the lock
SweepFair ==
    /\ SweepSpec
    /\ WF_vars(LockTick)
    /\ WF_vars(CreateStep(1))
    /\ \A l \in LoopIds : WF_vars(LoopStep(l)) /\ SF_vars(LoopAcquire(l))

\* ------------------------------------------------ the loop, C32 and C33

\* the manager has a cleanup task: started, and not stopped since
Started == _cleanup_task # NoTask

\* session sid is in the pool and its TTL runs out within the clock's range
Due(sid) ==
    \E s \in Range(_sessions) :
        /\ s.session_id = sid
        /\ s.last_used_at + session_ttl < MaxTime

\* C32: once cleanup is started and the TTL is positive, a session nobody
\* touches is eventually taken out of the pool (or cleanup is stopped), with
\* no caller needed: the loop alone gets to it, the tasks being scheduled
\* fairly; and after a round in which a close raised, the loop starts a later
\* round (or is stopped).
C32_IdleSessionEventuallySwept ==
    /\ \A sid \in 1 .. MaxOpen :
           (Started /\ session_ttl > 0 /\ Due(sid))
               ~> (sid \notin Ids(_sessions) \/ ~Started)
    /\ \A l \in LoopIds :
           (_cleanup_task = l /\ tasks[l].erred)
               ~> ((tasks[l].pc = "wait" /\ ~tasks[l].erred) \/ _cleanup_task # l)

\* the loop, with every caller idle, has taken session 1 out and awaits the
\* close of its context
C32_Witness ==
    /\ Started
    /\ tasks[_cleanup_task].pc = "cleanup_close"
    /\ Head(tasks[_cleanup_task].queue) = 1
    /\ tasks[1].pc = "idle"
    /\ _sessions = << >>
    /\ nextSid = 2

\* a close raised in this round, session 2 is in the pool: the loop sleeps
\* until its next round
C32_RoundAfterError ==
    /\ Started
    /\ tasks[_cleanup_task].pc = "sleep"
    /\ tasks[_cleanup_task].erred
    /\ 2 \in Ids(_sessions)

\* the step is start_cleanup's creating a task
Creates(l) == tasks[l].op = "none" /\ tasks'[l].op # "none"

\* C33: one loop at most can run, however often start_cleanup is called,
\* and it is the task the manager holds; stop_cleanup cancels that task and
\* returns when it is done: a cancelled loop does nothing more to the pool,
\* ends at its next step and gives the lock back if it had it, and a loop
\* that is done stays so and holds no lock; start_cleanup creates a task
\* exactly when there is none (or a done one), a stop_cleanup before it
\* included.
C33_OneLoopCancellableRestartable ==
    /\ [](/\ Cardinality(RunningLoops) <= 1
          /\ RunningLoops \subseteq { _cleanup_task }
          /\ \A l \in LoopIds :
                 _lock = l => tasks[l].pc \in { "cleanup", "cleanup_close", "cancelled" })
    /\ [][ /\ \A l \in LoopIds :
                /\ (tasks[l].pc = "cancelled" /\ Moved(l)) =>
                       /\ tasks'[l].pc = "done"
                       /\ _lock' # l
                       /\ UNCHANGED << _sessions, popped >>
                /\ TaskDone(l) =>
                       /\ TaskDone(l)'
                       /\ UNCHANGED << _sessions, popped, contexts, _lock >>
                             \/ \E u \in (Callers \cup LoopIds) \ { l } : Moved(u)
                /\ (tasks[l].awaited /\ ~tasks'[l].awaited) =>
                       /\ TaskDone(l)
                       /\ _lock # l
                       /\ _cleanup_task # l
                /\ Creates(l) =>
                       /\ ~Started \/ TaskDone(_cleanup_task)
                       /\ tasks'[l] = NewLoop
                       /\ _cleanup_task' = l
           /\ start_cleanup =>
                  IF ~Started \/ TaskDone(_cleanup_task)
                  THEN \E l \in LoopIds : Creates(l)
                  ELSE UNCHANGED << tasks, _cleanup_task >> ]_vars

\* the first loop was stopped and stop_cleanup has returned; start_cleanup
\* created the second one, which sweeps session 1
C33_Witness ==
    /\ TaskDone(Sweeper) /\ ~tasks[Sweeper].awaited
    /\ _cleanup_task = Sweeper + 1
    /\ tasks[Sweeper + 1].pc = "cleanup_close"
    /\ Head(tasks[Sweeper + 1].queue) = 1
    /\ _lock = Sweeper + 1

\* start_cleanup during stop_cleanup's "await task": the cancelled loop
\* still holds the lock, the new one waits for it
C33_StartedWhileStopping ==
    /\ tasks[Sweeper].pc = "cancelled" /\ tasks[Sweeper].awaited
    /\ _lock = Sweeper
    /\ _cleanup_task = Sweeper + 1
    /\ tasks[Sweeper + 1].pc = "wait"

\* the loop was cancelled while it awaited context.close() on the session
\* it had taken out, and the close did not go through: the context is open
\* and in no session
C33_CancelledInClose ==
    /\ TaskDone(Sweeper)
    /\ _sessions = << >>
    /\ nextSid = 2 /\ popped[1] = 1
    /\ 1 \in contexts
    /\ tasks[1].pc = "idle"

\* ------------------------------------------- the index cache, C36 .. C39

\* what a get_blocks_pseudocode that the engine answers with raw assigns
DescribeOutcome(raw) ==
    After("A", "get_blocks_pseudocode", EmptyDict,
          Before("get_blocks_pseudocode", EmptyDict, None, None), raw)

\* the index map and the name-to-id mappings one describe reply holds
SnapshotPairs ==
    { << DescribeOutcome(raw).idx[1], DescribeOutcome(raw).map[1] >> :
        raw \in { w \in EngineResults("get_blocks_pseudocode") :
                    DescribeOutcome(w).idx # << >> } }

\* C36: while the index cache is present, the name-to-id mappings are those
\* of the describe reply the index cache was built from: the two come from
\* one snapshot.
C36_MappingsOfSameSnapshot ==
    \A s \in SessionNames :
        ~CacheAbsent(cached_idx_to_block[s]) =>
            << cached_idx_to_block[s], cached_value_to_id_mappings[s] >> \in SnapshotPairs

\* what the code has: get_blocks_pseudocode assigns both fields from its
\* reply, get_blocks_structure the index cache alone, nothing else the
\* mappings
C36_OnlyPseudocodeStoresMappings ==
    [][ \A s \in SessionNames :
          /\ cached_value_to_id_mappings'[s] # cached_value_to_id_mappings[s] =>
                 /\ resp'.op = "complete" /\ resp'.sid = s
                 /\ resp'.api = "get_blocks_pseudocode" /\ resp'.code = ""
          /\ (resp'.op = "complete" /\ resp'.sid = s /\ resp'.code = ""
                 /\ resp'.api = "get_blocks_pseudocode") =>
                 << cached_idx_to_block'[s], cached_value_to_id_mappings'[s] >>
                     \in SnapshotPairs \cup { << None, None >> }
          /\ (resp'.op = "complete" /\ resp'.sid = s /\ resp'.code = ""
                 /\ resp'.api = "get_blocks_structure") =>
                 cached_value_to_id_mappings'[s] = cached_value_to_id_mappings[s] ]_vars

\* get_blocks_structure answered with the one-block map after a
\* get_blocks_pseudocode had stored the names of the two-block snapshot
C36_StructureKeepsOldMappings ==
    /\ resp.op = "complete" /\ resp.sid = "A" /\ resp.code = ""
    /\ resp.api = "get_blocks_structure"
    /\ cached_idx_to_block["A"] = MapB
    /\ cached_value_to_id_mappings["A"] = Names

\* the step is the return of a call of one of apis on session s
ReturnOf(s, apis) ==
    /\ resp'.op \in { "complete", "reject" }
    /\ resp'.sid = s
    /\ resp'.api \in apis

\* C37: the index cache of a session is absent when the session is new, and
\* goes from absent to present only in the return of a get_blocks_pseudocode
\* or get_blocks_structure call with a success envelope.
C37_PresentOnlyByDescribe ==
    /\ \A s \in SessionNames : CacheAbsent(cached_idx_to_block[s])
    /\ [][ \A s \in SessionNames :
             (CacheAbsent(cached_idx_to_block[s]) /\ ~CacheAbsent(cached_idx_to_block'[s])) =>
                 /\ resp'.op = "complete"
                 /\ ReturnOf(s, DescribeScripts)
                 /\ resp'.code = "" ]_vars

\* a get_blocks_structure on a session never described made the cache
\* present; a failed describe and an add_block have gone before
C37_Witness ==
    /\ resp.op = "complete" /\ resp.sid = "A" /\ resp.code = ""
    /\ resp.api = "get_blocks_structure"
    /\ cached_idx_to_block["A"] = MapAB
    /\ cached_value_to_id_mappings["A"] = None

\* C38: a structure-mutating command that returns a failure envelope leaves
\* the index cache as it was.
C38_FailedMutationKeepsCache ==
    [][ \A s \in SessionNames :
          (ReturnOf(s, MutatingScripts) /\ resp'.code # "") =>
              cached_idx_to_block'[s] = cached_idx_to_block[s] ]_vars

\* what the code has: the cache is cleared exactly when the engine reported
\* success, whatever envelope the call then returns; a call rejected before
\* the engine, or one the engine failed, leaves it
C38_ClearedWhenEngineSucceeded ==
    [][ \A s \in SessionNames :
          ReturnOf(s, MutatingScripts) =>
              \/ cached_idx_to_block'[s] = cached_idx_to_block[s]
              \/ /\ resp'.op = "complete"
                 /\ resp'.code \in { "", "RUNTIME_ERROR" }
                 /\ cached_idx_to_block'[s] = None
                 /\ snapshot'[s] = Cleared ]_vars

\* add_block: the engine reported success in the legacy shape with data that
\* is no dict; the call returned RUNTIME_ERROR and the cache is gone
C38_RuntimeErrorAfterClear ==
    /\ resp.op = "complete" /\ resp.sid = "A" /\ resp.api = "add_block"
    /\ resp.code = "RUNTIME_ERROR"
    /\ cached_idx_to_block["A"] = None
    /\ snapshot["A"] = Cleared
    /\ cached_value_to_id_mappings["A"] = Names

\* ------------------------------------------------ commands that edit nothing
\* One session is described and then sent the composite commands that are no
\* block-structure mutation, with well-formed and malformed arguments.

EditRequests ==
    { [ api |-> "get_blocks_pseudocode", args |-> EmptyDict ],
      [ api |-> "select_sprite", args |-> ("name" :> PyStr("Cat")) ],
      [ api |-> "select_sprite", args |-> EmptyDict ],
      [ api |-> "select_stage", args |-> EmptyDict ],
      [ api |-> "select_category", args |-> ("category" :> PyStr("motion")) ],
      [ api |-> "add_variable",
        args |-> ("name" :> PyStr("score")) @@ ("scope" :> PyStr("all")) ],
      [ api |-> "add_list",
        args |-> ("name" :> PyStr("score")) @@ ("scope" :> PyStr("nowhere")) ],
      [ api |-> "set_block_field",
        args |-> ("blockIndex" :> PyInt(1)) @@ ("fieldName" :> PyStr("VARIABLE"))
                 @@ ("value" :> PyStr("score")) ],
      [ api |-> "set_block_field",
        args |-> ("blockIndex" :> PyInt(2)) @@ ("fieldName" :> PyStr("VARIABLE")) ],
      [ api |-> "run_project", args |-> EmptyDict ],
      [ api |-> "stop_project", args |-> EmptyDict ],
      [ api |-> "custom_js", args |-> ("fn" :> PyStr("(h) => 1")) ],
      [ api |-> "fly", args |-> EmptyDict ],
      [ api |-> "  ", args |-> EmptyDict ] }

EditNext ==
    \/ \E r \in EditRequests : Dispatch("A", r)
    \/ \E p \in inflight : \E raw \in EngineResults(p.plan.script) : Complete(p, raw)

EditSpec == CacheInit /\ [][EditNext]_vars

\* C39: a composite command that is no block-structure mutation and no
\* describe (select_sprite, select_stage, select_category, add_variable,
\* add_list, set_block_field, run_project, stop_project, custom_js, an
\* unsupported or missing api) leaves the index cache as it was, at its
\* dispatch and at its return, whatever envelope it returns.
C39_NonMutatingKeepsCache ==
    [][ resp'.api \notin (MutatingScripts \cup DescribeScripts) =>
            cached_idx_to_block' = cached_idx_to_block ]_vars

\* after one describe two set_block_field edits have been sent, the second
\* just now, each with the block the snapshot has at index 1
C39_Witness ==
    /\ resp.op = "dispatch" /\ resp.api = "set_block_field"
    /\ resp.sent = << "blk_a" >>
    /\ cached_idx_to_block["A"] = MapAB
    /\ \E p \in inflight : p.api = "set_block_field" /\ p.n = 2

\* select_stage failed in the engine: the cache is still there
C39_FailedSelectKeepsCache ==
    /\ resp.op = "complete" /\ resp.api = "select_stage" /\ resp.code # ""
    /\ cached_idx_to_block["A"] = MapB

\* ------------------------------------------------ overlapping commands, C40
\* Two execute calls of one session suspended in page.evaluate.  The page
\* carries a script out at some moment between the call and its return, and
\* the replies of scripts that overlap come back in either order: the service
\* has no queue per session, and commands on one session are ordered only as
\* far as the caller waits for one before sending the next.

OverlapRequests ==
    { r \in CacheRequests : r.api \in { "get_blocks_pseudocode", "get_blocks_structure",
                                        "add_block", "delete_block" } }

\* the page has carried out the script of call p
Evaluated(p) == "raw" \in DOMAIN p

\* the page carries out the script of the suspended call p and has the reply
\* raw for it; snapshot follows the document: the index map a describe saw,
\* Cleared once a mutation has been carried out after it
Evaluate(p, raw) ==
    \E out \in { After(p.sid, p.api, p.args, p.plan, raw) } :
        LET engine_ok == _execute_js_script(raw).ok
        IN  /\ p \in inflight
            /\ ~Evaluated(p)
            /\ inflight' = (inflight \ { p }) \cup { p @@ ("raw" :> raw) }
            /\ snapshot' =
                   [ snapshot EXCEPT ![p.sid] =
                       IF p.api \in DescribeScripts /\ out.idx # << >> THEN out.idx[1]
                       ELSE IF p.api \in MutatingScripts /\ engine_ok THEN Cleared
                       ELSE @ ]
            /\ resp' = [ op |-> "evaluate", sid |-> p.sid, api |-> p.api,
                         code |-> "", sent |-> << >> ]
            /\ UNCHANGED << cached_idx_to_block, cached_value_to_id_mappings,
                            poolVars, clientVars >>

\* page.evaluate returns the reply to the suspended call p, which runs to
\* its return
Return(p) ==
    \E out \in { After(p.sid, p.api, p.args, p.plan, p.raw) } :
        /\ p \in inflight
        /\ Evaluated(p)
        /\ inflight' = inflight \ { p }
        /\ cached_idx_to_block' = Store(cached_idx_to_block, p.sid, out.idx)
        /\ cached_value_to_id_mappings' =
               Store(cached_value_to_id_mappings, p.sid, out.map)
        /\ resp' = [ op |-> "complete", sid |-> p.sid, api |-> p.api,
                     code |-> CodeOf(out.env), sent |-> << >> ]
        /\ UNCHANGED << snapshot, poolVars, clientVars >>

OverlapNext ==
    \/ \E r \in OverlapRequests : Dispatch("A", r)
    \/ \E p \in { q \in inflight : ~Evaluated(q) } :
           \E raw \in EngineResults(p.plan.script) : Evaluate(p, raw)
    \/ \E p \in { q \in inflight : Evaluated(q) } : Return(p)

OverlapSpec == CacheInit /\ [][OverlapNext]_vars

\* C40: once every overlapping call of a session has returned, the index
\* cache is not present with a snapshot the page produced before a mutation
\* it has carried out successfully: the cache is absent, or of a describe
\* carried out after the mutation.
C40_NoStaleCacheOnceReturned ==
    \A s \in SessionNames :
        (inflight = {} /\ snapshot[s] = Cleared) => CacheAbsent(cached_idx_to_block[s])

\* what the code has: a mutation clears the cache when it returns and a
\* describe stores its reply when it returns, whatever was carried out or
\* has returned in between
C40_LastReturnDecides ==
    [][ \A p \in inflight \ inflight' :
          Evaluated(p) =>
              /\ (p.api \in MutatingScripts /\ _execute_js_script(p.raw).ok) =>
                     cached_idx_to_block'[p.sid] = None
              /\ (p.api \in DescribeScripts /\ resp'.code = "") =>
                     cached_idx_to_block'[p.sid]
                         = After(p.sid, p.api, p.args, p.plan, p.raw).idx[1] ]_vars

\* describe and add_block overlapped: the page took the snapshot, then added
\* the block; add_block returned first and cleared the cache, the describe
\* returned after it and stored the snapshot taken before the block was added
C40_StaleAfterOverlap ==
    /\ inflight = {}
    /\ resp.op = "complete" /\ resp.api = "get_blocks_pseudocode" /\ resp.code = ""
    /\ snapshot["A"] = Cleared
    /\ cached_idx_to_block["A"] = MapAB

====
